---- MODULE Spec2Model ----
(***************************************************************************)
(* EchoPrep: the interview room lifecycle (backend routes), the room page  *)
(* (time window, countdown) and the interview session context.             *)
(***************************************************************************)
EXTENDS Integers, Sequences, FiniteSets, Bags, TLC

VARIABLES
    rooms,      \* InterviewRoom collection: persisted _id -> document
    results,    \* InterviewResult collection, in insertion order
    inflight,   \* bag of request handlers suspended at an await of save()
    lastResp,   \* the last HTTP response sent: [op, code]
    serverNow,  \* the server's clock (ms)
    \* ---- InterviewRoomPage (one mounted instance of the component)
    mounted,        \* the component is mounted
    fetchPc,        \* fetchInterview: "pending", "autoCompleting", "done"
    loadNow,        \* `now` of fetchInterview (NoTime before it is read)
    isLoading, error, canStart, interview, remainingTime, roomExpired,
    stream, deviceError, name, email,
    mediaPc,        \* setupMediaDevices: "idle", "pending", "done"
    timerRef,       \* timerRef.current
    timerLive,      \* the interval timerRef names has not been cleared
    tracksStopped,  \* the tracks of the page's stream were stopped
    closure,        \* interview and stream as the fetch effect's closure sees them
    requests,       \* completion requests the page has sent, in order
    startCall,      \* the options handleStart passed to startInterview
    \* ---- the window evaluation of fetchInterview, on its own
    windowIn,       \* [now, scheduledFor, duration]
    windowOut,      \* what the evaluation gave (Null before it ran)
    \* ---- InterviewContext (the provider's state)
    config, questions, currentQuestionIndex, answers, isInterviewInProgress,
    mediaStream, mediaStreamError,
    startPc,        \* startInterview: "idle", "getUserMedia", "fetchQuestions"
    startConfig,    \* sessionConfig of the startInterview call in progress
    analyses,       \* bag of saveAnswer calls awaiting analyzeAnswer
    analyzeLog,     \* requests sent to /api/interviews/gemini/analyze, in order
    consoleLog,     \* the last line saveAnswer wrote to the console
    isLoadingQuestions, isInitializingMedia, isHrScheduledInterview,
    questionCount,  \* count asked by the startInterview call in progress (0: none)
    result, isInterviewComplete,
    finishPc,       \* finishInterview: "idle", "completeByRoom", "autoComplete"
    finishCall,     \* what a suspended finishInterview holds (Null: nothing)
    finishResponse, \* the answer its awaited request has got (None: not yet)
    sessionRequests,    \* requests the latest finishInterview has sent, in order
    submissionsSinceStart,  \* POSTs of a result since the last startInterview:
                            \* 0, 1, or 2 for more than one
    token,              \* localStorage 'token'
    localRoomId,        \* localStorage 'interviewRoomId'
    sessionInterviewId, \* sessionStorage 'currentInterviewId'
    \* ---- InterviewContext: capture handles and calls that overlap
    trackStops,     \* per capture handle: runs of getTracks().forEach(stop)
                    \* on it (0, 1, or 2 for more than one)
    providerMounted,    \* the InterviewProvider is mounted
    staleAnalyses,  \* the saveAnswer calls that were awaiting analyzeAnswer
                    \* when the latest startInterview was called
    laterStart,     \* a startInterview called while another one is awaiting
                    \* its questions (Null: none)
    startLog        \* which startInterview call was made last, and which
                    \* call's questions the session holds

serverVars == <<rooms, results, inflight, lastResp, serverNow>>

pageVars == <<mounted, fetchPc, loadNow, isLoading, error, canStart, interview,
              remainingTime, roomExpired, stream, deviceError, name, email,
              mediaPc, timerRef, timerLive, tracksStopped, closure, requests,
              startCall>>

windowVars == <<windowIn, windowOut>>

startVars == <<isLoadingQuestions, isInitializingMedia, isHrScheduledInterview,
               questionCount>>

finishVars == <<result, isInterviewComplete, finishPc, finishCall,
                finishResponse, sessionRequests, submissionsSinceStart>>

storageVars == <<token, localRoomId, sessionInterviewId>>

sessionVars == <<config, questions, currentQuestionIndex, answers,
                 isInterviewInProgress, mediaStream, mediaStreamError, startPc,
                 startConfig, analyses, analyzeLog, consoleLog, startVars,
                 finishVars, storageVars>>

reentryVars == <<trackStops, providerMounted, staleAnalyses, laterStart,
                 startLog>>

vars == <<serverVars, pageVars, windowVars, sessionVars, reentryVars>>

(***************************************************************************)
(* Bounds of the model.                                                    *)
(***************************************************************************)
MaxInFlight == 2    \* handlers that may be suspended at a save() at once
MaxResults == 2     \* stored InterviewResult documents
MaxAnalyzeCalls == 2   \* requests a session sends to the analyze route

(***************************************************************************)
(* Time.                                                                   *)
(***************************************************************************)
MsPerMinute == 60000
DefaultDuration == 60
SchedT == 1000 * MsPerMinute   \* scheduledFor of the rooms the model creates (ms)

(***************************************************************************)
(* Users, tokens, keys.                                                    *)
(***************************************************************************)
None == "none"
Null == [null |-> TRUE]   \* null, where the values are objects
NoTime == 0 - 1           \* null, where the values are numbers
HRs == {"hr1", "hr2"}
Candidates == {"c1", "c2"}
Users == HRs \cup Candidates
UserRole(u) == IF u \in HRs THEN "hr" ELSE "candidate"
\* a caller is a user holding a valid JWT, a request with no Authorization
\* header ("anon"), or one with a token that does not verify ("badtoken")
Callers == Users \cup {"anon", "badtoken"}

RoomIdOrder == <<"id1">>   \* the _id values the database hands out
RoomIds == {RoomIdOrder[i] : i \in 1..Len(RoomIdOrder)}
UnknownObjectId == "id9"
UuidOf(r) == IF r = "id1" THEN "uuidA" ELSE "uuidB"   \* uuidv4()
UnknownUuid == "uuidZ"
Uuids == {UuidOf(r) : r \in RoomIds} \cup {UnknownUuid}
Keys == RoomIds \cup {UnknownObjectId} \cup Uuids

\* mongoose.Types.ObjectId.isValid: a uuid (36 characters) is not an ObjectId
IsValidObjectId(k) == k \in RoomIds \cup {UnknownObjectId}

\* `/interview-room/${param}`
RoomLink(param) == <<"/interview-room/", param>>

\* authenticateToken: 0 when next() is called, else the status sent
AuthenticateToken(caller) ==
    IF caller = "anon" THEN 401
    ELSE IF caller = "badtoken" THEN 403
    ELSE 0

\* requireHR
RequireHR(caller) == caller \in Users /\ UserRole(caller) = "hr"

(***************************************************************************)
(* Database reads.                                                         *)
(***************************************************************************)
\* InterviewRoom.findById(id): None when no document has that _id
FindById(id) == IF id \in DOMAIN rooms THEN id ELSE None

\* a lookup that takes any room, whatever its link
FindByRoomLinkAny(link) ==
    IF DOMAIN rooms # {} THEN CHOOSE r \in DOMAIN rooms : TRUE ELSE None

\* InterviewRoom.findOne({ roomLink })
FindByRoomLink(link) ==
    IF \E r \in DOMAIN rooms : rooms[r].roomLink = link
    THEN CHOOSE r \in DOMAIN rooms : rooms[r].roomLink = link
    ELSE None

\* the lookup of PUT /auto-complete/:id: by _id when the parameter is a valid
\* ObjectId, then by roomLink
ResolveAutoComplete(idParam) ==
    LET byId == IF IsValidObjectId(idParam) THEN FindById(idParam) ELSE None
    IN  IF byId # None THEN byId ELSE FindByRoomLink(RoomLink(idParam))

\* a lookup by roomLink alone, without the fallback to _id
ResolveByLinkOnly(roomId) == FindByRoomLink(RoomLink(roomId))

\* the lookup of PUT /room/:roomId/complete: by roomLink, then by _id
\* (findById of a string that is no ObjectId throws, caught as not found)
ResolveCompleteByRoom(roomId) ==
    LET byLink == FindByRoomLink(RoomLink(roomId))
    IN  IF byLink # None THEN byLink
        ELSE IF IsValidObjectId(roomId) THEN FindById(roomId) ELSE None

(***************************************************************************)
(* Database writes.  document.save() sends only the modified paths.        *)
(***************************************************************************)
SaveStatus(r, status) == [rooms EXCEPT ![r].status = status]
SaveNotes(r, notes) == [rooms EXCEPT ![r].notes = notes]

Suspend(e) == inflight (+) SetToBag({e})
Resume(e) == inflight (-) SetToBag({e})

\* the handler answers without having written anything
Reply(op, code) ==
    /\ lastResp' = [op |-> op, code |-> code]
    /\ UNCHANGED <<rooms, results, inflight, serverNow>>

\* the handler has set doc.status and awaits doc.save()
AwaitSave(op, caller, r, status) ==
    /\ BagCardinality(inflight) < MaxInFlight
    /\ inflight' = Suspend([op |-> op, pc |-> "saveStatus", caller |-> caller,
                            room |-> r, status |-> status, notes |-> <<>>,
                            valid |-> TRUE, before |-> "scheduled"])
    /\ UNCHANGED <<rooms, results, lastResp, serverNow>>

(***************************************************************************)
(* POST /api/interviews                                                    *)
(***************************************************************************)
CreateInterview(caller, candidate, id) ==
    /\ Cardinality(DOMAIN rooms) < Len(RoomIdOrder)
    /\ id = RoomIdOrder[Cardinality(DOMAIN rooms) + 1]
    /\ IF AuthenticateToken(caller) # 0
       THEN Reply("create", AuthenticateToken(caller))
       ELSE IF ~RequireHR(caller) THEN Reply("create", 403)
       ELSE IF candidate \notin Candidates THEN Reply("create", 404)
       ELSE /\ rooms' = [r \in DOMAIN rooms \cup {id} |->
                   IF r = id
                   THEN [hr |-> caller, candidate |-> candidate,
                         scheduledFor |-> SchedT, duration |-> DefaultDuration,
                         roomLink |-> RoomLink(UuidOf(id)),
                         status |-> "scheduled", notes |-> <<>>]
                   ELSE rooms[r]]
            /\ lastResp' = [op |-> "create", code |-> 201]
            /\ UNCHANGED <<results, inflight, serverNow>>

(***************************************************************************)
(* PUT /api/interviews/:id/cancel                                          *)
(***************************************************************************)
CancelFind(caller, id) ==
    IF IsValidObjectId(id) /\ id \in DOMAIN rooms /\ rooms[id].hr = caller
    THEN id ELSE None

CancelGuardLax(status) == IF status = "completed" THEN 400 ELSE 0

CancelGuard(status) == IF status # "scheduled" THEN 400 ELSE 0

CancelInterview(caller, id) ==
    IF AuthenticateToken(caller) # 0
    THEN Reply("cancel", AuthenticateToken(caller))
    ELSE IF ~RequireHR(caller) THEN Reply("cancel", 403)
    ELSE IF ~IsValidObjectId(id) THEN Reply("cancel", 500)
    ELSE IF CancelFind(caller, id) = None THEN Reply("cancel", 404)
    ELSE IF CancelGuard(rooms[id].status) # 0
         THEN Reply("cancel", CancelGuard(rooms[id].status))
    ELSE AwaitSave("cancel", caller, id, "cancelled")

(***************************************************************************)
(* PUT /api/interviews/:id/complete                                        *)
(***************************************************************************)
CompleteFind(caller, id) ==
    IF /\ IsValidObjectId(id)
       /\ id \in DOMAIN rooms
       /\ (rooms[id].hr = caller \/ rooms[id].candidate = caller)
    THEN id ELSE None

CompleteGuard(status) == IF status # "scheduled" THEN 400 ELSE 0

CompleteInterview(caller, id) ==
    IF AuthenticateToken(caller) # 0
    THEN Reply("complete", AuthenticateToken(caller))
    ELSE IF ~IsValidObjectId(id) THEN Reply("complete", 500)
    ELSE IF CompleteFind(caller, id) = None THEN Reply("complete", 404)
    ELSE IF CompleteGuard(rooms[id].status) # 0
         THEN Reply("complete", CompleteGuard(rooms[id].status))
    ELSE AwaitSave("complete", caller, id, "completed")

(***************************************************************************)
(* PUT /api/interviews/:id/auto-complete  (time based)                     *)
(***************************************************************************)
RoomEndTime(room) == room.scheduledFor + room.duration * MsPerMinute

TimedAutoComplete(caller, id) ==
    IF ~IsValidObjectId(id) THEN Reply("timedAutoComplete", 500)
    ELSE IF FindById(id) = None THEN Reply("timedAutoComplete", 404)
    ELSE IF rooms[id].status # "scheduled" THEN Reply("timedAutoComplete", 400)
    ELSE IF serverNow > RoomEndTime(rooms[id])
         THEN AwaitSave("timedAutoComplete", caller, id, "completed")
         ELSE Reply("timedAutoComplete", 400)

(***************************************************************************)
(* PUT /api/interviews/auto-complete/:id                                   *)
(***************************************************************************)
AutoCompleteGuard(status) == IF status # "scheduled" THEN 400 ELSE 0

AutoComplete(caller, idParam) ==
    LET r == ResolveAutoComplete(idParam)
    IN  IF r = None THEN Reply("autoComplete", 404)
        ELSE IF AutoCompleteGuard(rooms[r].status) # 0
             THEN Reply("autoComplete", AutoCompleteGuard(rooms[r].status))
             ELSE AwaitSave("autoComplete", caller, r, "completed")

(***************************************************************************)
(* PUT /api/interviews/room/:roomId/complete  (no authentication)          *)
(***************************************************************************)
CompleteByRoom(caller, roomId) ==
    LET r == ResolveCompleteByRoom(roomId)
    IN  IF r = None THEN Reply("completeByRoom", 404)
        ELSE IF rooms[r].status # "scheduled" THEN Reply("completeByRoom", 400)
        ELSE AwaitSave("completeByRoom", caller, r, "completed")

(***************************************************************************)
(* POST /api/interview-results                                             *)
(***************************************************************************)
StatusAfterSubmitSwapped(status) ==
    IF status = "scheduled" THEN "completed" ELSE "scheduled"

\* the in-memory status after "mark the interview as completed"
StatusAfterSubmit(status) ==
    IF status = "scheduled" THEN "completed" ELSE status

\* the submissions accepted and not yet stored
PendingSubmits ==
    BagCardinality([e \in {x \in BagToSet(inflight) : x.op = "submitResult"}
                      |-> inflight[e]])

\* interviewId is the uuid of the room link, or None when the body has none;
\* valid says whether the body carries every field the result schema requires
SubmitResult(caller, interviewId, valid) ==
    /\ Len(results) + PendingSubmits < MaxResults
    /\ IF AuthenticateToken(caller) # 0
       THEN Reply("submitResult", AuthenticateToken(caller))
       ELSE LET r == IF interviewId = None THEN None
                     ELSE FindByRoomLink(RoomLink(interviewId))
                st == IF r = None THEN None
                      ELSE StatusAfterSubmit(rooms[r].status)
            IN  IF interviewId # None /\ r = None
                THEN Reply("submitResult", 404)
                ELSE /\ BagCardinality(inflight) < MaxInFlight
                     /\ inflight' = Suspend(
                          [op |-> "submitResult",
                           pc |-> IF r # None /\ st # rooms[r].status
                                  THEN "saveStatus" ELSE "saveResult",
                           caller |-> caller, room |-> r, status |-> st,
                           notes |-> IF r = None THEN <<>> ELSE rooms[r].notes,
                           valid |-> valid,
                           before |-> IF r = None THEN None
                                      ELSE rooms[r].status])
                     /\ UNCHANGED <<rooms, results, lastResp, serverNow>>

(***************************************************************************)
(* Continuations: the awaited save() completes.                            *)
(***************************************************************************)
\* await interview.save() with status modified
SaveRoomStatus(e) ==
    /\ e.pc = "saveStatus"
    /\ rooms' = SaveStatus(e.room, e.status)
    /\ IF e.op = "submitResult"
       THEN /\ inflight' = Resume(e) (+) SetToBag({[e EXCEPT !.pc = "saveResult"]})
            /\ UNCHANGED lastResp
       ELSE /\ inflight' = Resume(e)
            /\ lastResp' = [op |-> e.op, code |-> 200]
    /\ UNCHANGED <<results, serverNow>>

\* a store that keeps one result per room
CreateResultPerRoom(prev, e) ==
    IF \E i \in 1..Len(prev) : prev[i].interviewId = e.room
    THEN [i \in 1..Len(prev) |->
            IF prev[i].interviewId = e.room
            THEN [candidateId |-> e.caller, interviewId |-> e.room]
            ELSE prev[i]]
    ELSE Append(prev, [candidateId |-> e.caller, interviewId |-> e.room])

\* new InterviewResult({...}) and result.save(): the stored collection after
\* the handler e has created its document
CreateResult(prev, e) ==
    Append(prev, [candidateId |-> e.caller, interviewId |-> e.room])

\* await result.save(): a body missing a required field is rejected by the
\* schema and the handler answers 500
SaveResult(e) ==
    /\ e.pc = "saveResult"
    /\ IF ~e.valid
       THEN /\ inflight' = Resume(e)
            /\ lastResp' = [op |-> "submitResult", code |-> 500]
            /\ UNCHANGED results
       ELSE /\ results' = CreateResult(results, e)
            /\ IF e.room # None
               THEN /\ inflight' = Resume(e) (+) SetToBag({[e EXCEPT
                          !.pc = "saveNotes",
                          !.notes = Append(@, Len(results) + 1)]})
                    /\ UNCHANGED lastResp
               ELSE /\ inflight' = Resume(e)
                    /\ lastResp' = [op |-> "submitResult", code |-> 201]
    /\ UNCHANGED <<rooms, serverNow>>

\* await interviewDocument.save() with notes modified
SaveRoomNotes(e) ==
    /\ e.pc = "saveNotes"
    /\ rooms' = SaveNotes(e.room, e.notes)
    /\ inflight' = Resume(e)
    /\ lastResp' = [op |-> "submitResult", code |-> 201]
    /\ UNCHANGED <<results, serverNow>>

\* time passes on the server
ServerInstants == {SchedT + DefaultDuration * MsPerMinute + 1}

AdvanceClock(t) ==
    /\ t > serverNow
    /\ serverNow' = t
    /\ UNCHANGED <<rooms, results, inflight, lastResp>>

(***************************************************************************)
(* The backend.                                                            *)
(***************************************************************************)
\* senders of requests to the route that reads no credentials
\* the requests the model sends to the routes: <<sender, parameter>>
PartyRequests ==
    {<<c, "id1">> : c \in Callers}
      \cup {<<"hr1", UnknownObjectId>>, <<"hr1", UuidOf("id1")>>}
TimedRequests == {<<"anon", k>> : k \in Keys \ {UnknownUuid}}
OpenRequests == {<<"anon", k>> : k \in Keys}
SubmitRequests ==
    {<<"anon", None, TRUE>>, <<"c1", UnknownUuid, TRUE>>}
      \cup {<<"c1", k, v>> : k \in {UuidOf("id1"), None}, v \in BOOLEAN}

InitServer ==
    /\ rooms = [r \in {} |-> None]
    /\ results = <<>>
    /\ inflight = EmptyBag
    /\ lastResp = [op |-> None, code |-> 0]
    /\ serverNow = SchedT + DefaultDuration * MsPerMinute

NextServer ==
    \/ \E c \in {"anon", "c1", "hr1"}, cand \in {"c1", "hr2"}, id \in RoomIds :
            CreateInterview(c, cand, id)
    \/ \E q \in PartyRequests : CancelInterview(q[1], q[2])
    \/ \E q \in PartyRequests : CompleteInterview(q[1], q[2])
    \/ \E q \in TimedRequests : TimedAutoComplete(q[1], q[2])
    \/ \E q \in OpenRequests : AutoComplete(q[1], q[2])
    \/ \E q \in OpenRequests : CompleteByRoom(q[1], q[2])
    \/ \E q \in SubmitRequests : SubmitResult(q[1], q[2], q[3])
    \/ \E e \in BagToSet(inflight) : SaveRoomStatus(e)
    \/ \E e \in BagToSet(inflight) : SaveResult(e)
    \/ \E e \in BagToSet(inflight) : SaveRoomNotes(e)
    \/ \E t \in ServerInstants : AdvanceClock(t)

(***************************************************************************)
(* Strings, as sequences of characters.                                    *)
(***************************************************************************)
\* String.prototype.toLowerCase, on the alphabet of the model
LowerChar(ch) == IF ch = "A" THEN "a" ELSE IF ch = "B" THEN "b" ELSE ch
ToLowerCase(str) == [i \in 1..Len(str) |-> LowerChar(str[i])]

\* String.prototype.trim
RECURSIVE TrimStart(_)
TrimStart(str) ==
    IF str # <<>> /\ Head(str) = " " THEN TrimStart(Tail(str)) ELSE str
RECURSIVE TrimEnd(_)
TrimEnd(str) ==
    IF str # <<>> /\ str[Len(str)] = " "
    THEN TrimEnd(SubSeq(str, 1, Len(str) - 1)) ELSE str
Trim(str) == TrimEnd(TrimStart(str))

(***************************************************************************)
(* InterviewRoomPage: the time window of fetchInterview.                   *)
(***************************************************************************)
MsPerSecond == 1000
JoinWindowMs == 300000        \* "5 minutes in milliseconds"
ClientDefaultDuration == 60   \* data.duration || 60

\* data.duration || 60
DurationOrDefault(duration) ==
    IF duration = 0 THEN ClientDefaultDuration ELSE duration

\* date-fns addMinutes
AddMinutes(t, minutes) == t + minutes * MsPerMinute

\* date-fns differenceInSeconds: the difference in ms / 1000, truncated
DifferenceInSeconds(later, earlier) ==
    IF later >= earlier THEN (later - earlier) \div MsPerSecond
    ELSE 0 - ((earlier - later) \div MsPerSecond)

\* lines 90-124 of fetchInterview: which branch is taken, and the value
\* given to setRemainingTime in the last one
EvaluateWindow(now, scheduledFor, duration) ==
    LET timeDiff == scheduledFor - now
        endTime == AddMinutes(scheduledFor, DurationOrDefault(duration))
        remainingSecs == DifferenceInSeconds(endTime, now)
    IN  IF now > endTime THEN [phase |-> "ended", remainingSecs |-> 0]
        ELSE IF timeDiff > JoinWindowMs
             THEN [phase |-> "notYetOpen", remainingSecs |-> 0]
             ELSE [phase |-> "joinable",
                   remainingSecs |-> IF remainingSecs > 0 THEN remainingSecs ELSE 0]

(***************************************************************************)
(* InterviewRoomPage: the component.                                       *)
(***************************************************************************)
PageRoomId == "id1"            \* data._id of the room the link names
CandidateEmail == <<"A", "b">> \* data.candidate.email
NameInputs == {<<>>, <<" ">>, <<"n">>}
EmailInputs == {<<>>, <<" ">>, <<"a", "b">>, <<"A", "B">>, <<"a", "c">>, <<"a", "b", " ">>}

\* what GET /api/interviews/room/:roomId may answer, and when it is read
RoomSnapshot(status, duration) ==
    [_id |-> PageRoomId, status |-> status, scheduledFor |-> SchedT,
     duration |-> duration, candidateEmail |-> CandidateEmail]

\* React drops a state update of a component that is no longer mounted
SetState(new, old) == IF mounted THEN new ELSE old

PageInit ==
    /\ mounted = TRUE
    /\ fetchPc = "pending"
    /\ loadNow = NoTime
    /\ isLoading = TRUE
    /\ error = None
    /\ canStart = FALSE
    /\ interview = Null
    /\ remainingTime = NoTime
    /\ roomExpired = FALSE
    /\ stream = None
    /\ deviceError = FALSE
    /\ name = <<>>
    /\ email = <<>>
    /\ mediaPc = "idle"
    /\ timerRef = 0
    /\ timerLive = FALSE
    /\ tracksStopped = FALSE
    /\ closure = [interview |-> interview, stream |-> stream]
    /\ requests = <<>>
    /\ startCall = Null

\* fetchInterview, from the response to the first await or the return
FetchInterview(data, now) ==
    LET w == EvaluateWindow(now, data.scheduledFor, data.duration)
        branch == IF data.status = "cancelled" THEN "cancelled"
                  ELSE IF data.status = "completed" THEN "completed"
                  ELSE w.phase
    IN
    /\ fetchPc = "pending"
    /\ interview' = SetState(data, interview)
    /\ loadNow' = IF branch \in {"cancelled", "completed"} THEN loadNow ELSE now
    /\ roomExpired' = SetState(IF branch \in {"completed", "ended"}
                               THEN TRUE ELSE roomExpired, roomExpired)
    /\ canStart' = SetState(IF branch = "joinable" THEN TRUE
                            ELSE IF branch \in {"completed", "ended", "notYetOpen"}
                                 THEN FALSE ELSE canStart, canStart)
    /\ error' = SetState(IF branch = "joinable" THEN error ELSE branch, error)
    /\ remainingTime' = SetState(IF branch = "joinable" THEN w.remainingSecs
                                 ELSE remainingTime, remainingTime)
    /\ IF branch = "joinable" /\ w.remainingSecs > 0
       THEN timerRef' = 1 /\ timerLive' = TRUE
       ELSE UNCHANGED <<timerRef, timerLive>>
    /\ IF branch = "ended" /\ data.status = "scheduled"
       THEN /\ requests' = Append(requests, [route |-> "autoComplete", id |-> data._id])
            /\ fetchPc' = "autoCompleting"
            /\ UNCHANGED isLoading
       ELSE /\ fetchPc' = "done"
            /\ isLoading' = SetState(FALSE, isLoading)
            /\ UNCHANGED requests
    /\ UNCHANGED <<mounted, stream, deviceError, name, email, mediaPc,
                   tracksStopped, closure, startCall>>

\* the auto-complete request of an expired room has returned or failed;
\* finally { setIsLoading(false) }
FetchInterviewFinally ==
    /\ fetchPc = "autoCompleting"
    /\ fetchPc' = "done"
    /\ isLoading' = SetState(FALSE, isLoading)
    /\ UNCHANGED <<mounted, loadNow, error, canStart, interview, remainingTime,
                   roomExpired, stream, deviceError, name, email, mediaPc,
                   timerRef, timerLive, tracksStopped, closure, requests, startCall>>

\* the response is not ok, or the request failed
FetchInterviewFailed ==
    /\ fetchPc = "pending"
    /\ fetchPc' = "done"
    /\ error' = SetState("notFound", error)
    /\ isLoading' = SetState(FALSE, isLoading)
    /\ UNCHANGED <<mounted, loadNow, canStart, interview, remainingTime,
                   roomExpired, stream, deviceError, name, email, mediaPc,
                   timerRef, timerLive, tracksStopped, closure, requests, startCall>>

\* the interval callback: setRemainingTime(prev => ...)
CountdownTick ==
    /\ timerLive
    /\ mounted
    /\ IF remainingTime = NoTime \/ remainingTime <= 1
       THEN /\ timerLive' = IF timerRef # 0 THEN FALSE ELSE timerLive
            /\ roomExpired' = TRUE
            /\ error' = "expired"
            /\ canStart' = FALSE
            /\ IF /\ closure.interview # Null
                  /\ closure.interview.status = "scheduled"
                  /\ closure.stream # None
               THEN /\ requests' = Append(requests,
                          [route |-> "complete", id |-> closure.interview._id])
                    /\ tracksStopped' = TRUE
               ELSE UNCHANGED <<requests, tracksStopped>>
            /\ remainingTime' = 0
       ELSE /\ remainingTime' = remainingTime - 1
            /\ UNCHANGED <<timerLive, roomExpired, error, canStart, requests,
                           tracksStopped>>
    /\ UNCHANGED <<mounted, fetchPc, loadNow, isLoading, interview, stream,
                   deviceError, name, email, mediaPc, timerRef, closure, startCall>>

\* the media effect: setupMediaDevices is called
SetupMediaDevices ==
    /\ mounted /\ mediaPc = "idle"
    /\ ~isLoading /\ interview # Null /\ canStart /\ ~roomExpired
    /\ mediaPc' = "pending"
    /\ UNCHANGED <<mounted, fetchPc, loadNow, isLoading, error, canStart, interview,
                   remainingTime, roomExpired, stream, deviceError, name, email,
                   timerRef, timerLive, tracksStopped, closure, requests, startCall>>

\* getUserMedia resolves or rejects
GetUserMediaDone(granted) ==
    /\ mediaPc = "pending"
    /\ mediaPc' = "done"
    /\ IF granted
       THEN stream' = SetState("stream1", stream) /\ UNCHANGED deviceError
       ELSE deviceError' = SetState(TRUE, deviceError) /\ UNCHANGED stream
    /\ UNCHANGED <<mounted, fetchPc, loadNow, isLoading, error, canStart, interview,
                   remainingTime, roomExpired, name, email, timerRef, timerLive,
                   tracksStopped, closure, requests, startCall>>

\* the form is rendered only when not loading, without error, with a room
FormRendered == mounted /\ ~isLoading /\ error = None /\ interview # Null

SetName(v) ==
    /\ FormRendered /\ v # name
    /\ name' = v
    /\ UNCHANGED <<mounted, fetchPc, loadNow, isLoading, error, canStart, interview,
                   remainingTime, roomExpired, stream, deviceError, email, mediaPc,
                   timerRef, timerLive, tracksStopped, closure, requests, startCall>>

SetEmail(v) ==
    /\ FormRendered /\ v # email
    /\ email' = v
    /\ UNCHANGED <<mounted, fetchPc, loadNow, isLoading, error, canStart, interview,
                   remainingTime, roomExpired, stream, deviceError, name, mediaPc,
                   timerRef, timerLive, tracksStopped, closure, requests, startCall>>

\* the cleanup of the fetch effect: clearInterval(timerRef.current)
CleanupTimer == IF timerRef # 0 THEN FALSE ELSE timerLive

EmailMatchesAny(entered, scheduled) == Trim(entered) # <<>>

\* email.toLowerCase() !== interview.candidate.email.toLowerCase()
EmailMatches(entered, scheduled) == ToLowerCase(entered) = ToLowerCase(scheduled)

\* handleStart; navigate('/interview') unmounts the page
HandleStart ==
    /\ mounted
    /\ interview # Null /\ canStart /\ ~roomExpired
    /\ IF Trim(name) = <<>> \/ Trim(email) = <<>>
       THEN /\ error' = "fields"
            /\ UNCHANGED <<mounted, timerLive, startCall>>
       ELSE IF ~EmailMatches(email, interview.candidateEmail)
       THEN /\ error' = "emailMismatch"
            /\ UNCHANGED <<mounted, timerLive, startCall>>
       ELSE IF stream # None
       THEN /\ startCall' = [mediaStream |-> stream, interviewId |-> interview._id]
            /\ mounted' = FALSE
            /\ timerLive' = CleanupTimer
            /\ UNCHANGED error
       ELSE /\ error' = "noCamera"
            /\ UNCHANGED <<mounted, timerLive, startCall>>
    /\ UNCHANGED <<fetchPc, loadNow, isLoading, canStart, interview, remainingTime,
                   roomExpired, stream, deviceError, name, email, mediaPc,
                   timerRef, tracksStopped, closure, requests>>

\* the user leaves the page
Unmount ==
    /\ mounted
    /\ mounted' = FALSE
    /\ timerLive' = CleanupTimer
    /\ UNCHANGED <<fetchPc, loadNow, isLoading, error, canStart, interview,
                   remainingTime, roomExpired, stream, deviceError, name, email,
                   mediaPc, timerRef, tracksStopped, closure, requests, startCall>>

(***************************************************************************)
(* The window evaluation on its own inputs.                                *)
(***************************************************************************)
WindowIdle == windowIn = Null /\ windowOut = Null

\* fetchInterview reaches line 90 with the room's data and reads the clock
EvaluateWindowStep ==
    /\ windowIn # Null /\ windowOut = Null
    /\ windowOut' = EvaluateWindow(windowIn.now, windowIn.scheduledFor,
                                   windowIn.duration)
    /\ UNCHANGED windowIn

(***************************************************************************)
(* InterviewContext: the session.                                          *)
(***************************************************************************)
MinAnalyzedLength == 10   \* answerData.text.trim().length > 10

QUESTION_TIME_LIMIT_SECONDS == 180
DEFAULT_PRACTICE_QUESTION_COUNT == 10
DEFAULT_SCHEDULED_QUESTION_COUNT == 5

QuestionIds == <<"q1", "q2", "q3">>
Prompts == <<"prompt1", "prompt2", "prompt3">>
JobRoles == {"web-developer", "other"}

\* the questions a start may end with: n of them, ids by position
MakeQuestions(n) == [i \in 1..n |-> [id |-> QuestionIds[i], text |-> Prompts[i]]]

\* MOCK_QUESTIONS[jobRole]?.[experienceLevel] || [], by its length
MockCount(cfg) == IF cfg.jobRole = "web-developer" THEN 2 ELSE 0

\* hrScheduledCheck: the flag when given, else whether an interviewId is given
IsHrScheduled(options) ==
    IF options.isHrScheduled # "undefined" THEN options.isHrScheduled = "true"
    ELSE options.interviewId # None

CountForDurationFloor(seconds) == seconds \div QUESTION_TIME_LIMIT_SECONDS

\* Math.max(1, Math.floor(durationInSeconds / QUESTION_TIME_LIMIT_SECONDS))
CountForDuration(seconds) ==
    IF seconds \div QUESTION_TIME_LIMIT_SECONDS > 1
    THEN seconds \div QUESTION_TIME_LIMIT_SECONDS ELSE 1

\* questionCount of startInterview; an absent duration is NoTime
QuestionCount(options) ==
    IF IsHrScheduled(options)
    THEN IF options.durationInSeconds # NoTime /\ options.durationInSeconds > 0
         THEN CountForDuration(options.durationInSeconds)
         ELSE DEFAULT_SCHEDULED_QUESTION_COUNT
    ELSE DEFAULT_PRACTICE_QUESTION_COUNT

\* the capture handles: the one the room page hands over, and the one
\* getUserMedia gives the context
Handles == {"stream1", "stream2"}

\* a fresh provider: no handle was stopped, no call is pending
ReentryInit ==
    /\ trackStops = [h \in Handles |-> 0]
    /\ providerMounted = TRUE
    /\ staleAnalyses = EmptyBag
    /\ laterStart = Null
    /\ startLog = [latest |-> None, questionsOf |-> None, questionsConfig |-> Null]

SessionInit ==
    /\ ReentryInit
    /\ config = Null
    /\ questions = <<>>
    /\ currentQuestionIndex = 0
    /\ answers = <<>>
    /\ isInterviewInProgress = FALSE
    /\ mediaStream = None
    /\ mediaStreamError = None
    /\ startPc = "idle"
    /\ startConfig = Null
    /\ analyses = EmptyBag
    /\ analyzeLog = <<>>
    /\ consoleLog = None
    /\ isLoadingQuestions = FALSE
    /\ isInitializingMedia = FALSE
    /\ isHrScheduledInterview = FALSE
    /\ questionCount = 0
    /\ result = Null
    /\ isInterviewComplete = FALSE
    /\ finishPc = "idle"
    /\ finishCall = Null
    /\ finishResponse = None
    /\ sessionRequests = <<>>
    /\ submissionsSinceStart = 0
    /\ token = None
    /\ localRoomId = None
    /\ sessionInterviewId = None

\* startInterview, up to its first await or its return
StartInterview(options) ==
    LET sessionConfig == IF options.jobRole # None
                         THEN [jobRole |-> options.jobRole,
                               experienceLevel |-> "mid-level"]
                         ELSE config
    IN
    /\ startPc = "idle"
    /\ isInterviewComplete' = FALSE
    /\ result' = Null
    /\ answers' = <<>>
    /\ isHrScheduledInterview' = IsHrScheduled(options)
    /\ sessionInterviewId' = options.interviewId
    /\ submissionsSinceStart' = 0
    /\ IF sessionConfig = Null
       THEN /\ questions' = MakeQuestions(1)
            /\ isLoadingQuestions' = FALSE
            /\ isInitializingMedia' = FALSE
            /\ isInterviewInProgress' = TRUE
            /\ UNCHANGED <<config, mediaStream, startPc, startConfig, questionCount>>
       ELSE /\ config' = sessionConfig
            /\ startConfig' = sessionConfig
            /\ questionCount' = QuestionCount(options)
            /\ isLoadingQuestions' = TRUE
            /\ isInitializingMedia' = TRUE
            /\ IF options.mediaStream # None
               THEN mediaStream' = options.mediaStream /\ startPc' = "fetchQuestions"
               ELSE UNCHANGED mediaStream /\ startPc' = "getUserMedia"
            /\ UNCHANGED <<questions, isInterviewInProgress>>
    /\ UNCHANGED <<currentQuestionIndex, mediaStreamError, analyses, analyzeLog,
                   consoleLog, finishPc, finishCall, finishResponse,
                   sessionRequests, token, localRoomId>>

\* startInterview: getUserMedia resolves or rejects
StartMediaDone(granted) ==
    /\ startPc = "getUserMedia"
    /\ startPc' = "fetchQuestions"
    /\ IF granted
       THEN mediaStream' = "stream2" /\ mediaStreamError' = None
       ELSE mediaStreamError' = "denied" /\ UNCHANGED mediaStream
    /\ UNCHANGED <<config, questions, currentQuestionIndex, answers,
                   isInterviewInProgress, startConfig, analyses, analyzeLog,
                   consoleLog, startVars, finishVars, storageVars>>

StartFinallyKeepsLoading ==
    /\ currentQuestionIndex' = 0
    /\ isInterviewInProgress' = TRUE
    /\ isInitializingMedia' = FALSE
    /\ UNCHANGED isLoadingQuestions

\* the finally block of startInterview
StartFinally ==
    /\ currentQuestionIndex' = 0
    /\ isInterviewInProgress' = TRUE
    /\ isLoadingQuestions' = FALSE
    /\ isInitializingMedia' = FALSE

\* what the catch of the questions request leaves: the mock table's entries
\* for the role and level, or one generic question
FallbackQuestions(cfg) ==
    IF MockCount(cfg) > 0 THEN MakeQuestions(MockCount(cfg)) ELSE MakeQuestions(1)

\* startInterview: the questions request answers with an array of n texts
\* (ok), or it fails or answers in another format (not ok)
StartQuestionsDone(ok, n) ==
    /\ startPc = "fetchQuestions"
    /\ questions' = IF ok THEN MakeQuestions(n) ELSE FallbackQuestions(startConfig)
    /\ StartFinally
    /\ questionCount' = 0
    /\ startPc' = "idle"
    /\ startConfig' = Null
    /\ UNCHANGED <<config, answers, mediaStream, mediaStreamError, analyses,
                   analyzeLog, consoleLog, isHrScheduledInterview, finishVars,
                   storageVars>>

nextQuestionUnclamped ==
    /\ currentQuestionIndex' = currentQuestionIndex + 1
    /\ UNCHANGED <<config, questions, answers, isInterviewInProgress, mediaStream,
                   mediaStreamError, startPc, startConfig, analyses, analyzeLog,
                   consoleLog, startVars, finishVars, storageVars>>

nextQuestion ==
    /\ currentQuestionIndex < Len(questions) - 1
    /\ currentQuestionIndex' = currentQuestionIndex + 1
    /\ UNCHANGED <<config, questions, answers, isInterviewInProgress, mediaStream,
                   mediaStreamError, startPc, startConfig, analyses, analyzeLog,
                   consoleLog, startVars, finishVars, storageVars>>

previousQuestion ==
    /\ currentQuestionIndex > 0
    /\ currentQuestionIndex' = currentQuestionIndex - 1
    /\ UNCHANGED <<config, questions, answers, isInterviewInProgress, mediaStream,
                   mediaStreamError, startPc, startConfig, analyses, analyzeLog,
                   consoleLog, startVars, finishVars, storageVars>>

\* the updater saveAnswer gives setAnswers: replace by questionId, or append
UpsertAppend(prevAnswers, a) == Append(prevAnswers, a)

UpsertOverwriteAll(prevAnswers, a) == <<a>>

UpsertAnswer(prevAnswers, a) ==
    IF \E i \in 1..Len(prevAnswers) : prevAnswers[i].questionId = a.questionId
    THEN [i \in 1..Len(prevAnswers) |->
            IF prevAnswers[i].questionId = a.questionId THEN a ELSE prevAnswers[i]]
    ELSE Append(prevAnswers, a)

\* answer texts of the model: k letters between `before` and `after` blanks
RECURSIVE Letters(_)
Letters(k) == IF k = 0 THEN <<>> ELSE <<"x">> \o Letters(k - 1)
Blank == <<" ">>
AnswerTexts == {<<>>,
                Blank \o Letters(MinAnalyzedLength) \o Blank,
                Letters(MinAnalyzedLength + 1)}

MeaningfulAnswerUntrimmed(text) == text # <<>> /\ Len(text) > MinAnalyzedLength

\* answerData.text && answerData.text.trim().length > 10
MeaningfulAnswer(text) == text # <<>> /\ Len(Trim(text)) > MinAnalyzedLength

\* saveAnswer, up to the await of analyzeAnswer or to its return
saveAnswer(questionId, text) ==
    IF config = Null \/ currentQuestionIndex + 1 > Len(questions)
    THEN /\ consoleLog' = "No config or current question"
         /\ UNCHANGED <<config, questions, currentQuestionIndex, answers,
                        isInterviewInProgress, mediaStream, mediaStreamError,
                        startPc, startConfig, analyses, analyzeLog, startVars,
                        finishVars, storageVars>>
    ELSE IF MeaningfulAnswer(text)
    THEN /\ Len(analyzeLog) < MaxAnalyzeCalls
         /\ analyzeLog' = Append(analyzeLog,
                [question |-> questions[currentQuestionIndex + 1].text,
                 answer |-> text])
         /\ analyses' = analyses (+) SetToBag({[questionId |-> questionId,
                                                text |-> text]})
         /\ consoleLog' = "Meaningful answer"
         /\ UNCHANGED <<config, questions, currentQuestionIndex, answers,
                        isInterviewInProgress, mediaStream, mediaStreamError,
                        startPc, startConfig, startVars, finishVars,
                        storageVars>>
    ELSE /\ answers' = UpsertAnswer(answers,
                [questionId |-> questionId, text |-> text, score |-> 0,
                 feedback |-> "Answer was too short for analysis."])
         /\ consoleLog' = "Answer too short or empty"
         /\ UNCHANGED <<config, questions, currentQuestionIndex,
                        isInterviewInProgress, mediaStream, mediaStreamError,
                        startPc, startConfig, analyses, analyzeLog, startVars,
                        finishVars, storageVars>>

\* scores of the evaluator, in thousandths of its 0.0 .. 1.0 scale
OracleScores == {4, 995}

RoundDivDown(x, d) == x \div d

\* Math.round(x / d) for x >= 0 and d > 0: the nearest integer, halves upwards
RoundDiv(x, d) == (2 * x + d) \div (2 * d)

ScaleScoreTruncated(thousandths) == thousandths \div 10

\* POST /gemini/analyze: Math.round(response.data.score * 100)
ScaleScore(thousandths) == RoundDiv(thousandths, 10)

\* the mock range of the analysis when the route fails
MockScoreLow == 50
MockScoreSpan == 21   \* Math.floor(Math.random() * 21) + 50
MockScores == {MockScoreLow, MockScoreLow + MockScoreSpan - 1}

\* analyzeAnswer returns to saveAnswer, which records the analysis: the
\* route's scaled score, or the mock analysis of the catch
saveAnswerAnalyzed(e, ok, oracle, mock) ==
    /\ BagIn(e, analyses)
    /\ mock \in MockScores
    /\ analyses' = analyses (-) SetToBag({e})
    /\ answers' = UpsertAnswer(answers,
            [questionId |-> e.questionId, text |-> e.text,
             score |-> IF ok THEN ScaleScore(oracle) ELSE mock,
             feedback |-> IF ok THEN "analysis" ELSE "fallback"])
    /\ UNCHANGED <<config, questions, currentQuestionIndex, isInterviewInProgress,
                   mediaStream, mediaStreamError, startPc, startConfig,
                   analyzeLog, consoleLog, startVars, finishVars, storageVars>>

\* answers.filter(answer => answer.score !== undefined); NoTime is undefined
AnswersWithScores(as) == SelectSeq(as, LAMBDA a : a.score # NoTime)

RECURSIVE SumScores(_)
SumScores(as) == IF as = <<>> THEN 0 ELSE Head(as).score + SumScores(Tail(as))

\* totalScore of finishInterview
TotalScore(as) ==
    IF Len(AnswersWithScores(as)) > 0
    THEN RoundDiv(SumScores(AnswersWithScores(as)), Len(AnswersWithScores(as)))
    ELSE 0

SkippedText == <<"S", "k", "i", "p", "p", "e", "d">>

\* answers.find(a => a.questionId === id): the first one, as a set of <= 1
FindAnswer(as, id) ==
    {as[j] : j \in {j \in 1..Len(as) :
                        /\ as[j].questionId = id
                        /\ \A k \in 1..(j - 1) : as[k].questionId # id}}

FinalAnswersRecordedOnly(qs, as) ==
    [j \in 1..Len(as) |->
        [questionId |-> as[j].questionId, questionText |-> None,
         text |-> as[j].text, score |-> as[j].score,
         feedback |-> as[j].feedback]]

\* finalAnswers of finishInterview: one entry per question, in question order
FinalAnswers(qs, as) ==
    [i \in 1..Len(qs) |->
        IF FindAnswer(as, qs[i].id) # {}
        THEN LET existingAnswer == CHOOSE a \in FindAnswer(as, qs[i].id) : TRUE
             IN [questionId |-> existingAnswer.questionId,
                 questionText |-> qs[i].text,
                 text |-> existingAnswer.text,
                 score |-> existingAnswer.score,
                 feedback |-> existingAnswer.feedback]
        ELSE [questionId |-> qs[i].id,
              questionText |-> qs[i].text,
              text |-> SkippedText,
              score |-> 0,
              feedback |-> "This question was skipped."]]

\* resultToSave of finishInterview
ResultToSave(qs, as, hr) ==
    [totalScore |-> TotalScore(as), answers |-> FinalAnswers(qs, as),
     isHrScheduled |-> hr]

\* interviewRoomId of finishInterview: the URL's room id, else localStorage's,
\* else sessionStorage's, else none
ResolveRoomId(urlRoomId) ==
    IF urlRoomId # None THEN urlRoomId
    ELSE IF localRoomId # None THEN localRoomId
    ELSE sessionInterviewId

FinishResetKeepIndex ==
    /\ isInterviewInProgress' = FALSE
    /\ isInterviewComplete' = TRUE
    /\ UNCHANGED currentQuestionIndex

\* the closing statements of finishInterview
FinishReset ==
    /\ isInterviewInProgress' = FALSE
    /\ currentQuestionIndex' = 0
    /\ isInterviewComplete' = TRUE

\* the POST /api/interview-results of finishInterview, which is not awaited
ResultsRequest(roomId, res, cfg) ==
    [route |-> "POST /api/interview-results", interviewId |-> roomId,
     jobRole |-> cfg.jobRole, totalScore |-> res.totalScore,
     answers |-> res.answers]

RoomRequest(route, roomId) ==
    [route |-> route, interviewId |-> roomId, jobRole |-> None,
     totalScore |-> 0, answers |-> <<>>]

\* one more POST /api/interview-results since the last startInterview
CountSubmission ==
    submissionsSinceStart' = IF submissionsSinceStart = 0 THEN 1 ELSE 2

HasResultWithConfig == config # Null

\* whether finishInterview calculates a result
HasResult == Len(answers) > 0 /\ config # Null

\* finishInterview, up to its first await or to its return; sessionRequests
\* restarts with each call
finishInterview(urlRoomId) ==
    /\ finishPc = "idle"
    /\ mediaStream' = None
    /\ IF HasResult
       THEN LET resultToSave == ResultToSave(questions, answers,
                                             isHrScheduledInterview)
                interviewRoomId == ResolveRoomId(urlRoomId)
            IN /\ result' = resultToSave
               /\ IF token # None /\ interviewRoomId # None
                  THEN /\ sessionRequests' =
                            <<RoomRequest("PUT /api/interviews/room/complete",
                                          interviewRoomId)>>
                       /\ finishPc' = "completeByRoom"
                       /\ finishCall' = [interviewRoomId |-> interviewRoomId,
                                         resultToSave |-> resultToSave,
                                         config |-> config]
                       /\ UNCHANGED <<isInterviewInProgress, currentQuestionIndex,
                                      isInterviewComplete, finishResponse,
                                      submissionsSinceStart>>
                  ELSE /\ IF token # None
                          THEN /\ sessionRequests' =
                                    <<ResultsRequest(None, resultToSave, config)>>
                               /\ CountSubmission
                          ELSE /\ sessionRequests' = <<>>
                               /\ UNCHANGED submissionsSinceStart
                       /\ FinishReset
                       /\ UNCHANGED <<finishPc, finishCall, finishResponse>>
       ELSE /\ result' = Null
            /\ sessionRequests' = <<>>
            /\ FinishReset
            /\ UNCHANGED <<finishPc, finishCall, finishResponse,
                           submissionsSinceStart>>
    /\ UNCHANGED <<config, questions, answers, mediaStreamError, startPc,
                   startConfig, analyses, analyzeLog, consoleLog, startVars,
                   storageVars>>

\* finishInterview, from the answer to a room request to its return
FinishSubmit ==
    /\ sessionRequests' = Append(sessionRequests,
            ResultsRequest(finishCall.interviewRoomId, finishCall.resultToSave,
                           finishCall.config))
    /\ CountSubmission
    /\ FinishReset
    /\ finishPc' = "idle"
    /\ finishCall' = Null
    /\ finishResponse' = None
    /\ UNCHANGED result

\* the awaited request of finishInterview is answered "ok" or "notOk", or the
\* fetch rejects ("error")
FinishResponse(outcome) ==
    /\ finishPc # "idle"
    /\ finishResponse = None
    /\ finishResponse' = outcome
    /\ UNCHANGED <<config, questions, currentQuestionIndex, answers,
                   isInterviewInProgress, mediaStream, mediaStreamError, startPc,
                   startConfig, analyses, analyzeLog, consoleLog, startVars,
                   result, isInterviewComplete, finishPc, finishCall,
                   sessionRequests, submissionsSinceStart, storageVars>>

\* finishInterview resumes after the PUT .../room/:id/complete
CompleteByRoomDone ==
    /\ finishPc = "completeByRoom"
    /\ finishResponse # None
    /\ IF finishResponse = "notOk"
       THEN /\ sessionRequests' = Append(sessionRequests,
                    RoomRequest("PUT /api/interviews/auto-complete",
                                finishCall.interviewRoomId))
            /\ finishPc' = "autoComplete"
            /\ finishResponse' = None
            /\ UNCHANGED <<isInterviewInProgress, currentQuestionIndex, result,
                           isInterviewComplete, finishCall, submissionsSinceStart>>
       ELSE FinishSubmit
    /\ UNCHANGED <<config, questions, answers, mediaStream, mediaStreamError,
                   startPc, startConfig, analyses, analyzeLog, consoleLog,
                   startVars, storageVars>>

\* finishInterview resumes after the fallback PUT .../auto-complete/:id
AutoCompleteDone ==
    /\ finishPc = "autoComplete"
    /\ finishResponse # None
    /\ FinishSubmit
    /\ UNCHANGED <<config, questions, answers, mediaStream, mediaStreamError,
                   startPc, startConfig, analyses, analyzeLog, consoleLog,
                   startVars, storageVars>>

FetchOutcomes == {"ok", "notOk", "error"}

(***************************************************************************)
(* InterviewContext: the capture handle's release, and calls of            *)
(* startInterview and saveAnswer that overlap a startInterview.            *)
(***************************************************************************)
\* one run of stream.getTracks().forEach(track => track.stop()) on handle h
StopTracks(stops, h) ==
    IF h = None THEN stops
    ELSE [stops EXCEPT ![h] = IF @ < 2 THEN @ + 1 ELSE 2]

\* the effect on [mediaStream]: when the state changes, the cleanup of the
\* previous render stops the tracks of the handle it held
MediaEffect ==
    trackStops' = IF mediaStream' # mediaStream
                  THEN StopTracks(trackStops, mediaStream)
                  ELSE trackStops

\* finishInterview stops the tracks of its handle and sets the state to
\* null, upon which the effect's cleanup runs
FinishStops ==
    trackStops' = IF mediaStream' # mediaStream
                  THEN StopTracks(StopTracks(trackStops, mediaStream), mediaStream)
                  ELSE StopTracks(trackStops, mediaStream)

\* a startInterview call, with what it leaves behind for the calls that are
\* still awaiting analyzeAnswer
TrackedStart(options) ==
    /\ laterStart = Null
    /\ StartInterview(options)
    /\ MediaEffect
    /\ staleAnalyses' = analyses
    /\ startLog' = [startLog EXCEPT !.latest = "first"]
    /\ UNCHANGED <<providerMounted, laterStart>>

\* getUserMedia hands out a handle that nobody held before
TrackedMediaDone(granted) ==
    /\ granted => (trackStops["stream2"] = 0 /\ mediaStream # "stream2")
    /\ StartMediaDone(granted)
    /\ MediaEffect
    /\ UNCHANGED <<providerMounted, staleAnalyses, laterStart, startLog>>

TrackedQuestionsDone(ok, n) ==
    /\ StartQuestionsDone(ok, n)
    /\ startLog' = [startLog EXCEPT !.questionsOf = "first",
                                    !.questionsConfig = startConfig]
    /\ UNCHANGED <<trackStops, providerMounted, staleAnalyses, laterStart>>

\* startInterview called with a role and a stream while an earlier call is
\* awaiting its questions: the statements up to the questions request
StartInterviewOverlapping(options) ==
    LET sessionConfig == [jobRole |-> options.jobRole,
                          experienceLevel |-> "mid-level"]
    IN
    /\ startPc = "fetchQuestions"
    /\ laterStart = Null
    /\ options.jobRole # None /\ options.mediaStream # None
    /\ isLoadingQuestions' = TRUE
    /\ isInitializingMedia' = TRUE
    /\ isInterviewComplete' = FALSE
    /\ result' = Null
    /\ answers' = <<>>
    /\ isHrScheduledInterview' = IsHrScheduled(options)
    /\ sessionInterviewId' = options.interviewId
    /\ submissionsSinceStart' = 0
    /\ config' = sessionConfig
    /\ mediaStream' = options.mediaStream
    /\ laterStart' = [config |-> sessionConfig]
    /\ MediaEffect
    /\ staleAnalyses' = analyses
    /\ startLog' = [startLog EXCEPT !.latest = "later"]
    /\ UNCHANGED <<questions, currentQuestionIndex, isInterviewInProgress,
                   mediaStreamError, startPc, startConfig, questionCount,
                   analyses, analyzeLog, consoleLog, finishPc, finishCall,
                   finishResponse, sessionRequests, token, localRoomId,
                   providerMounted>>

\* the questions request of the later call is answered, and its finally
\* block runs
LaterQuestionsDone(ok, n) ==
    /\ laterStart # Null
    /\ questions' = IF ok THEN MakeQuestions(n)
                    ELSE FallbackQuestions(laterStart.config)
    /\ StartFinally
    /\ laterStart' = Null
    /\ startLog' = [startLog EXCEPT !.questionsOf = "later",
                                    !.questionsConfig = laterStart.config]
    /\ UNCHANGED <<config, answers, mediaStream, mediaStreamError, startPc,
                   startConfig, questionCount, isHrScheduledInterview,
                   analyses, analyzeLog, consoleLog, finishVars, storageVars,
                   trackStops, providerMounted, staleAnalyses>>

\* saveAnswer for the current question, with a text that is analysed and
\* that no call from before the latest start is still waiting with
TrackedSaveAnswer(text) ==
    /\ currentQuestionIndex + 1 <= Len(questions)
    /\ ~BagIn([questionId |-> questions[currentQuestionIndex + 1].id,
               text |-> text], staleAnalyses)
    /\ saveAnswer(questions[currentQuestionIndex + 1].id, text)
    /\ UNCHANGED reentryVars

TrackedAnswerAnalyzed(e, ok) ==
    /\ saveAnswerAnalyzed(e, ok, 850, MockScoreLow)
    /\ staleAnalyses' = IF BagIn(e, staleAnalyses)
                        THEN staleAnalyses (-) SetToBag({e})
                        ELSE staleAnalyses
    /\ UNCHANGED <<trackStops, providerMounted, laterStart, startLog>>

TrackedFinish ==
    /\ finishInterview(None)
    /\ FinishStops
    /\ UNCHANGED <<providerMounted, staleAnalyses, laterStart, startLog>>

\* the provider unmounts: the cleanup of the effect on [mediaStream] runs
UnmountProvider ==
    /\ providerMounted
    /\ providerMounted' = FALSE
    /\ trackStops' = StopTracks(trackStops, mediaStream)
    /\ UNCHANGED <<sessionVars, staleAnalyses, laterStart, startLog>>


\* the options of the starts of SpecSession: practice sessions
SessionStartOptions ==
    [mediaStream : {None, "stream1"}, jobRole : {"web-developer", None},
     interviewId : {None}, durationInSeconds : {NoTime},
     isHrScheduled : {"undefined"}]

SessionQuestionIds == {"q1", "q2"}

SessionNext ==
    \/ \E o \in SessionStartOptions : StartInterview(o)
    \/ \E g \in BOOLEAN : StartMediaDone(g)
    \/ \E ok \in BOOLEAN, n \in 1..Cardinality(SessionQuestionIds) :
          (ok \/ n = 1) /\ StartQuestionsDone(ok, n)
    \/ nextQuestion
    \/ previousQuestion
    \/ \E q \in SessionQuestionIds, t \in AnswerTexts : saveAnswer(q, t)
    \/ \E e \in BagToSet(analyses), ok \in BOOLEAN, mock \in MockScores :
          (ok => mock = MockScoreLow) /\ saveAnswerAnalyzed(e, ok, 850, mock)

(***************************************************************************)
(* Specifications.                                                         *)
(***************************************************************************)
\* the instants at which the page reads its clock, relative to scheduledFor
\* (duration, clock reading relative to scheduledFor) of the loads
Loads == {<<1, 0 - JoinWindowMs - 1>>,
          <<1, 0 - JoinWindowMs>>,
          <<1, MsPerMinute - 2500>>, <<1, MsPerMinute - 999>>,
          <<1, MsPerMinute>>, <<1, MsPerMinute + 1>>,
          <<0, 60 * MsPerMinute - 1001>>, <<0, 60 * MsPerMinute + 1>>}
Statuses == {"scheduled", "completed", "cancelled"}

PageNext ==
    \/ \E st \in Statuses, l \in Loads :
          FetchInterview(RoomSnapshot(st, l[1]), SchedT + l[2])
    \/ FetchInterviewFinally
    \/ FetchInterviewFailed
    \/ CountdownTick
    \/ SetupMediaDevices
    \/ \E g \in BOOLEAN : GetUserMediaDone(g)
    \/ \E v \in NameInputs : SetName(v)
    \/ \E v \in EmailInputs : SetEmail(v)
    \/ HandleStart
    \/ Unmount

\* the clock readings and durations the window is evaluated on
WindowOffsets == {0 - 10 * MsPerMinute, 0 - JoinWindowMs - 1, 0 - JoinWindowMs,
                  0 - 3 * MsPerMinute, 0, 1, MsPerMinute - 1, MsPerMinute,
                  MsPerMinute + 1, 60 * MsPerMinute - 1500, 60 * MsPerMinute - 999,
                  60 * MsPerMinute, 60 * MsPerMinute + 1, 61 * MsPerMinute,
                  90 * MsPerMinute, 90 * MsPerMinute + 1}
WindowDurations == {0, 1, 60, 90}
WindowInputs == [now : {SchedT + off : off \in WindowOffsets},
                 scheduledFor : {SchedT}, duration : WindowDurations]

Init == InitServer /\ PageInit /\ WindowIdle /\ SessionInit

Next == NextServer /\ UNCHANGED <<pageVars, windowVars, sessionVars, reentryVars>>

\* the backend routes and the rooms they keep
Spec == Init /\ [][Next]_vars

\* one instance of the room page
SpecPage ==
    Init /\ [][PageNext /\ UNCHANGED <<serverVars, windowVars, sessionVars,
                                     reentryVars>>]_vars

InitWindow ==
    /\ InitServer /\ PageInit /\ SessionInit
    /\ windowIn \in WindowInputs
    /\ windowOut = Null

\* the window evaluation, over its inputs
SpecWindow ==
    InitWindow /\ [][EvaluateWindowStep
                      /\ UNCHANGED <<serverVars, pageVars, sessionVars,
                                     reentryVars>>]_vars

\* one interview session of the context provider
SpecSession ==
    Init /\ [][SessionNext /\ UNCHANGED <<serverVars, pageVars, windowVars,
                                        reentryVars>>]_vars

\* the options of the starts of SpecStart
StartDurations == {NoTime, 0, 100, 179, 180, 359, 900}
StartOptions ==
    [mediaStream : {None, "stream1"}, jobRole : JobRoles \cup {None},
     interviewId : {None, "session-room"}, durationInSeconds : StartDurations,
     isHrScheduled : {"undefined", "true", "false"}]

StartNext ==
    \/ \E o \in StartOptions : StartInterview(o)
    \/ \E g \in BOOLEAN : StartMediaDone(g)
    \/ \E ok \in BOOLEAN, n \in 0..Len(QuestionIds) :
          (ok \/ n = 0) /\ StartQuestionsDone(ok, n)

\* the starts of a session, over their options and the outcomes of the
\* device and of the questions request
SpecStart ==
    Init /\ [][StartNext /\ UNCHANGED <<serverVars, pageVars, windowVars,
                                      reentryVars>>]_vars

\* the sessions finishInterview is called in: one to three questions, the
\* current one any of them, and answers to some of them in any order
FinishScores == {0, 70, 85, 90}
RecordedAnswer(q, sc) ==
    [questionId |-> q,
     text |-> IF sc = 0 THEN <<>> ELSE Letters(MinAnalyzedLength + 1),
     score |-> sc,
     feedback |-> IF sc = 0 THEN "Answer was too short for analysis."
                  ELSE "analysis"]

RECURSIVE AnswerLists(_)
AnswerLists(ids) ==
    {<<>>} \cup UNION {{<<RecordedAnswer(q, sc)>> \o rest :
                            rest \in AnswerLists(ids \ {q})} :
                       q \in ids, sc \in FinishScores}

InitFinish ==
    /\ InitServer /\ PageInit /\ WindowIdle /\ ReentryInit
    /\ \E n \in 1..Len(QuestionIds) :
          /\ questions = MakeQuestions(n)
          /\ currentQuestionIndex \in 0..(n - 1)
          /\ answers \in AnswerLists({QuestionIds[i] : i \in 1..n})
          /\ config \in {Null, [jobRole |-> "web-developer",
                                experienceLevel |-> "mid-level"]}
          /\ config = Null => n = 1 /\ answers = <<>>
    /\ isInterviewInProgress = TRUE
    /\ mediaStream \in {None, "stream1"}
    /\ mediaStreamError = None
    /\ startPc = "idle"
    /\ startConfig = Null
    /\ analyses = EmptyBag
    /\ analyzeLog = <<>>
    /\ consoleLog = None
    /\ isLoadingQuestions = FALSE
    /\ isInitializingMedia = FALSE
    /\ sessionInterviewId \in {None, "session-room"}
    /\ isHrScheduledInterview = (sessionInterviewId # None)
    /\ questionCount = 0
    /\ result = Null
    /\ isInterviewComplete = FALSE
    /\ finishPc = "idle"
    /\ finishCall = Null
    /\ finishResponse = None
    /\ sessionRequests = <<>>
    /\ submissionsSinceStart = 0
    /\ token \in {None, "token"}
    /\ localRoomId \in {None, "stored-room"}

UrlRoomIds == {None, "url-room"}

FinishNext ==
    \/ \E urlRoomId \in UrlRoomIds : finishInterview(urlRoomId)
    \/ \E outcome \in FetchOutcomes : FinishResponse(outcome)
    \/ CompleteByRoomDone
    \/ AutoCompleteDone

\* finishInterview and the answers to its requests, from a session in progress
SpecFinish ==
    InitFinish
    /\ [][FinishNext /\ UNCHANGED <<serverVars, pageVars, windowVars,
                                    reentryVars>>]_vars

\* a session in progress with one or two questions and no answer yet, and
\* no token in localStorage
InitScoring ==
    /\ InitServer /\ PageInit /\ WindowIdle /\ ReentryInit
    /\ \E n \in 1..Cardinality(SessionQuestionIds) : questions = MakeQuestions(n)
    /\ currentQuestionIndex = 0
    /\ answers = <<>>
    /\ config = [jobRole |-> "web-developer", experienceLevel |-> "mid-level"]
    /\ isInterviewInProgress = TRUE
    /\ mediaStream = None
    /\ mediaStreamError = None
    /\ startPc = "idle"
    /\ startConfig = Null
    /\ analyses = EmptyBag
    /\ analyzeLog = <<>>
    /\ consoleLog = None
    /\ isLoadingQuestions = FALSE
    /\ isInitializingMedia = FALSE
    /\ sessionInterviewId = None
    /\ isHrScheduledInterview = FALSE
    /\ questionCount = 0
    /\ result = Null
    /\ isInterviewComplete = FALSE
    /\ finishPc = "idle"
    /\ finishCall = Null
    /\ finishResponse = None
    /\ sessionRequests = <<>>
    /\ submissionsSinceStart = 0
    /\ token = None
    /\ localRoomId = None

ScoringNext ==
    \/ nextQuestion
    \/ \E q \in SessionQuestionIds, t \in AnswerTexts : saveAnswer(q, t)
    \/ \E e \in BagToSet(analyses), ok \in BOOLEAN, oracle \in OracleScores,
          mock \in MockScores :
          /\ ok => mock = MockScoreLow
          /\ ~ok => oracle = 4
          /\ saveAnswerAnalyzed(e, ok, oracle, mock)
    \/ finishInterview(None)

\* the answers of a session and their scores, and the result of its finish
SpecScoring ==
    InitScoring
    /\ [][ScoringNext /\ UNCHANGED <<serverVars, pageVars, windowVars,
                                     reentryVars>>]_vars

\* the starts of SpecLifecycle: with and without a role, the stream given
LifecycleStartOptions ==
    [mediaStream : {"stream1"}, jobRole : {"web-developer", None},
     interviewId : {None}, durationInSeconds : {NoTime},
     isHrScheduled : {"undefined"}]

\* a fresh provider in a browser that may hold a token and a room id
InitLifecycle ==
    /\ InitServer /\ PageInit /\ WindowIdle /\ ReentryInit
    /\ config = Null
    /\ questions = <<>>
    /\ currentQuestionIndex = 0
    /\ answers = <<>>
    /\ isInterviewInProgress = FALSE
    /\ mediaStream = None
    /\ mediaStreamError = None
    /\ startPc = "idle"
    /\ startConfig = Null
    /\ analyses = EmptyBag
    /\ analyzeLog = <<>>
    /\ consoleLog = None
    /\ isLoadingQuestions = FALSE
    /\ isInitializingMedia = FALSE
    /\ isHrScheduledInterview = FALSE
    /\ questionCount = 0
    /\ result = Null
    /\ isInterviewComplete = FALSE
    /\ finishPc = "idle"
    /\ finishCall = Null
    /\ finishResponse = None
    /\ sessionRequests = <<>>
    /\ submissionsSinceStart = 0
    /\ token \in {None, "token"}
    /\ localRoomId \in {None, "stored-room"}
    /\ sessionInterviewId = None

LifecycleNext ==
    \/ \E o \in LifecycleStartOptions : StartInterview(o)
    \/ \E ok \in BOOLEAN, n \in 0..Len(QuestionIds) :
          (ok \/ n = 0) /\ StartQuestionsDone(ok, n)
    \/ nextQuestion
    \/ previousQuestion
    \/ \E q \in SessionQuestionIds : saveAnswer(q, <<>>)
    \/ finishInterview(None)
    \/ \E outcome \in FetchOutcomes : FinishResponse(outcome)
    \/ CompleteByRoomDone
    \/ AutoCompleteDone

\* the operations of one provider from its construction: starts, moves
\* between questions, short answers and finishes
SpecLifecycle ==
    InitLifecycle
    /\ [][LifecycleNext /\ UNCHANGED <<serverVars, pageVars, windowVars,
                                       reentryVars>>]_vars

\* the texts of overlapping saveAnswer calls: two that are analysed
OverlapTexts == {Letters(MinAnalyzedLength + 1), Letters(MinAnalyzedLength + 2)}

\* answers are given to the current question
OverlapNext ==
    \/ nextQuestion
    \/ previousQuestion
    \/ \E t \in OverlapTexts :
          saveAnswer(questions[currentQuestionIndex + 1].id, t)
    \/ \E e \in BagToSet(analyses), ok \in BOOLEAN :
          saveAnswerAnalyzed(e, ok, 850, MockScoreLow)

\* saveAnswer calls of one session and the answers of the analyze route, in
\* any order
SpecOverlap ==
    InitScoring
    /\ [][OverlapNext /\ UNCHANGED <<serverVars, pageVars, windowVars,
                                     reentryVars>>]_vars

\* the starts of SpecMedia: with the page's stream, or with none, so that the
\* context asks getUserMedia for one
MediaStartOptions ==
    [mediaStream : {None, "stream1"}, jobRole : {"web-developer"},
     interviewId : {None}, durationInSeconds : {NoTime},
     isHrScheduled : {"undefined"}]

\* a handle that options bring is one the context has not held before
MediaNext ==
    \/ /\ providerMounted
       /\ \/ \E o \in MediaStartOptions :
                /\ o.mediaStream # None
                     => (trackStops[o.mediaStream] = 0
                           /\ mediaStream # o.mediaStream)
                /\ TrackedStart(o)
          \/ \E g \in BOOLEAN : TrackedMediaDone(g)
          \/ \E ok \in BOOLEAN, n \in 0..Len(QuestionIds) :
                (ok \/ n = 0) /\ TrackedQuestionsDone(ok, n)
          \/ nextQuestion /\ UNCHANGED reentryVars
          \/ \E q \in SessionQuestionIds : saveAnswer(q, <<>>) /\ UNCHANGED reentryVars
          \/ TrackedFinish
    \/ UnmountProvider

\* the capture handles of a provider from its mount to its unmount; the
\* provider is followed no further once it is unmounted
SpecMedia ==
    Init /\ [][MediaNext /\ UNCHANGED <<serverVars, pageVars, windowVars>>]_vars

\* the starts of SpecRestart: either role, the stream given
RestartOptions ==
    [mediaStream : {"stream1"}, jobRole : JobRoles,
     interviewId : {None}, durationInSeconds : {NoTime},
     isHrScheduled : {"undefined"}]

RestartNext ==
    \/ \E o \in RestartOptions : TrackedStart(o)
    \/ \E o \in RestartOptions : StartInterviewOverlapping(o)
    \/ \E ok \in BOOLEAN, n \in 0..Cardinality(SessionQuestionIds) :
          (ok \/ n = 0) /\ (ok => n > 0) /\ TrackedQuestionsDone(ok, n)
    \/ \E ok \in BOOLEAN, n \in 0..Cardinality(SessionQuestionIds) :
          (ok \/ n = 0) /\ (ok => n > 0) /\ LaterQuestionsDone(ok, n)
    \/ \E t \in OverlapTexts : TrackedSaveAnswer(t)
    \/ \E e \in BagToSet(analyses), ok \in BOOLEAN : TrackedAnswerAnalyzed(e, ok)
    \/ TrackedFinish

\* a session in progress that is started again, once or by two calls that
\* overlap, while saveAnswer calls may be awaiting their analysis
SpecRestart ==
    InitScoring
    /\ [][RestartNext /\ UNCHANGED <<serverVars, pageVars, windowVars>>]_vars

\* the same, where finishInterview goes on whenever it can: an answer to its
\* awaited request may never come, but once it has come the call resumes
SpecFinishFair ==
    /\ SpecFinish
    /\ WF_<<finishPc, finishResponse>>(CompleteByRoomDone)
    /\ WF_<<finishPc, finishResponse>>(AutoCompleteDone)

(***************************************************************************)
(* Room lifecycle properties.                                              *)
(***************************************************************************)
Terminal == {"completed", "cancelled"}

\* C1: once a room's status is completed or cancelled, no cancel, complete,
\* auto-complete or result-submission request makes it scheduled again.
C1_NeverScheduledAgain ==
    [][\A r \in DOMAIN rooms :
          rooms[r].status \in Terminal
            => r \in DOMAIN rooms' /\ rooms'[r].status # "scheduled"]_vars

\* a cancelled room on which an auto-complete was then refused, with a result stored
C1_Witness ==
    \E r \in DOMAIN rooms :
        /\ rooms[r].status = "cancelled"
        /\ Len(results) > 0
        /\ lastResp = [op |-> "autoComplete", code |-> 400]

\* C2: under any interleaving of the handlers, a stored status that is
\* completed or cancelled never changes to a different value.
C2_TerminalStatusFinal ==
    [][\A r \in DOMAIN rooms :
          rooms[r].status \in Terminal
            => r \in DOMAIN rooms' /\ rooms'[r].status = rooms[r].status]_vars

\* C3: an auto-complete request on a room that is already completed or
\* cancelled is answered with success and leaves the room unchanged.
C3_AutoCompleteOnTerminalSucceeds ==
    [][\A k \in Keys :
          (/\ ResolveAutoComplete(k) # None
           /\ rooms[ResolveAutoComplete(k)].status \in Terminal
           /\ AutoComplete("anon", k))
            => lastResp'.code = 200 /\ rooms' = rooms]_vars

\* the handler a guarded transition leaves suspended at its save()
PendingWrite(op, c, r, status) ==
    [op |-> op, pc |-> "saveStatus", caller |-> c, room |-> r,
     status |-> status, notes |-> <<>>, valid |-> TRUE,
     before |-> "scheduled"]

\* C4: a cancel or explicit complete request from an authorised caller sets
\* the status (cancelled, completed) if and only if the status it reads is
\* scheduled; otherwise it is answered 400 and nothing is written.
C4_GuardedTransitions ==
    [][/\ \A id \in DOMAIN rooms : \A c \in {rooms[id].hr} :
            (CancelFind(c, id) # None /\ RequireHR(c) /\ CancelInterview(c, id))
              => IF rooms[id].status = "scheduled"
                 THEN /\ inflight' = Suspend(PendingWrite("cancel", c, id, "cancelled"))
                      /\ lastResp' = lastResp
                 ELSE /\ lastResp' = [op |-> "cancel", code |-> 400]
                      /\ rooms' = rooms /\ inflight' = inflight
       /\ \A id \in DOMAIN rooms : \A c \in {rooms[id].hr, rooms[id].candidate} :
            (CompleteFind(c, id) # None /\ AuthenticateToken(c) = 0
                /\ CompleteInterview(c, id))
              => IF rooms[id].status = "scheduled"
                 THEN /\ inflight' = Suspend(PendingWrite("complete", c, id, "completed"))
                      /\ lastResp' = lastResp
                 ELSE /\ lastResp' = [op |-> "complete", code |-> 400]
                      /\ rooms' = rooms /\ inflight' = inflight
       /\ \A e \in BagToSet(inflight) :
            (e.op \in {"cancel", "complete"} /\ SaveRoomStatus(e))
              => /\ rooms'[e.room].status = e.status
                 /\ e.status = (IF e.op = "cancel" THEN "cancelled" ELSE "completed")
                 /\ lastResp' = [op |-> e.op, code |-> 200]]_vars

\* a cancel was refused with 400 on a room that an explicit complete completed
C4_Witness ==
    /\ lastResp = [op |-> "cancel", code |-> 400]
    /\ \E r \in DOMAIN rooms : rooms[r].status = "completed"
    /\ inflight = EmptyBag

\* C5: a cancel changes a room only when sent by its organizer, an explicit
\* complete (by id or by room token) only when sent by its organizer or its
\* candidate.
C5_OnlyPartiesChangeRoom ==
    [][\A e \in BagToSet(inflight) :
          (SaveRoomStatus(e) /\ rooms'[e.room].status # rooms[e.room].status)
            => /\ e.op = "cancel" => e.caller = rooms[e.room].hr
               /\ e.op \in {"complete", "completeByRoom"}
                    => e.caller \in {rooms[e.room].hr, rooms[e.room].candidate}]_vars

\* C6: the window evaluation yields exactly one phase: ended iff
\* now > scheduledFor + duration; otherwise notYetOpen iff scheduledFor - now
\* exceeds five minutes; otherwise joinable, with the whole seconds from now
\* to the end as remaining seconds, never negative.
C6_WindowPhases ==
    windowOut # Null =>
        LET now == windowIn.now
            end == windowIn.scheduledFor + windowIn.duration * MsPerMinute
        IN  /\ windowOut.phase \in {"ended", "notYetOpen", "joinable"}
            /\ windowOut.phase = "ended" <=> now > end
            /\ windowOut.phase = "notYetOpen"
                 <=> (~(now > end) /\ windowIn.scheduledFor - now > JoinWindowMs)
            /\ windowOut.phase = "joinable"
                 => /\ windowOut.remainingSecs = DifferenceInSeconds(end, now)
                    /\ windowOut.remainingSecs >= 0

\* C7: startInterview is called only when the loaded room is scheduled, the
\* load found the window joinable, canStart holds, roomExpired does not, a
\* stream is held and the entered email equals the candidate's ignoring case;
\* it is then given that stream and that room's id.
C7_StartOnlyWhenJoinable ==
    [][startCall' # startCall =>
          /\ interview # Null
          /\ interview.status = "scheduled"
          /\ loadNow # NoTime
          /\ EvaluateWindow(loadNow, interview.scheduledFor,
                            interview.duration).phase = "joinable"
          /\ canStart /\ ~roomExpired
          /\ stream # None
          /\ ToLowerCase(email) = ToLowerCase(interview.candidateEmail)
          /\ startCall' = [mediaStream |-> stream, interviewId |-> interview._id]]_vars

\* a session was started from the page with an email differing in case only
C7_Witness ==
    /\ startCall # Null
    /\ email # interview.candidateEmail
    /\ ~mounted

\* C8: loading a scheduled room whose end time (scheduledFor + duration) has
\* passed locks the page out (roomExpired, not canStart, no countdown) and
\* sends an auto-complete request for the room; loading a completed or
\* cancelled room sends no completion request.
C8_ExpiredOnLoad ==
    [][\A st \in Statuses, l \in Loads :
          (mounted /\ FetchInterview(RoomSnapshot(st, l[1]), SchedT + l[2]))
            => /\ (st = "scheduled" /\ SchedT + l[2] > SchedT + l[1] * MsPerMinute)
                    => /\ roomExpired' /\ ~canStart' /\ ~timerLive'
                       /\ requests' = Append(requests,
                              [route |-> "autoComplete", id |-> PageRoomId])
               /\ st \in {"completed", "cancelled"} => requests' = requests]_vars

\* C9: when the countdown of a joinable page reaches zero the page is locked
\* out (roomExpired, not canStart, timer cleared) and, the room being still
\* scheduled, a request to complete the room is sent.
C9_CountdownExpiry ==
    [][(CountdownTick /\ remainingTime <= 1 /\ interview # Null)
          => /\ roomExpired' /\ ~canStart' /\ ~timerLive'
             /\ interview.status = "scheduled"
                  => /\ Len(requests') = Len(requests) + 1
                     /\ requests'[Len(requests')].id = interview._id]_vars

\* C10 (as stated): saveAnswer with a text whose trimmed length is at most 10
\* sends nothing to the analyze route and records the answer with score 0.
C10_LengthGateAlways ==
    [][\A q \in {QuestionIds[i] : i \in 1..Len(QuestionIds)}, t \in AnswerTexts :
          (saveAnswer(q, t) /\ Len(Trim(t)) <= MinAnalyzedLength)
            => /\ analyzeLog' = analyzeLog /\ analyses' = analyses
               /\ \E i \in 1..Len(answers') :
                     /\ answers'[i].questionId = q
                     /\ answers'[i].text = t
                     /\ answers'[i].score = 0]_vars

\* C10 (amended): when a config and a current question exist, saveAnswer
\* with a text whose trimmed length is at most 10 sends nothing to the
\* analyze route and records the answer with score 0; without a config or a
\* current question it records nothing and sends nothing; and every request
\* sent to the analyze route carries a text whose trimmed length exceeds 10.
C10_LengthGate ==
    [][/\ \A q \in {QuestionIds[i] : i \in 1..Len(QuestionIds)}, t \in AnswerTexts :
            (saveAnswer(q, t) /\ Len(Trim(t)) <= MinAnalyzedLength)
              => /\ analyzeLog' = analyzeLog /\ analyses' = analyses
                 /\ IF config # Null /\ currentQuestionIndex < Len(questions)
                    THEN \E i \in 1..Len(answers') :
                            /\ answers'[i].questionId = q
                            /\ answers'[i].text = t
                            /\ answers'[i].score = 0
                    ELSE answers' = answers
       /\ analyzeLog' # analyzeLog
            => /\ Len(analyzeLog') = Len(analyzeLog) + 1
               /\ Len(Trim(analyzeLog'[Len(analyzeLog')].answer)) > MinAnalyzedLength]_vars

\* an answer of 12 characters, 10 after trimming, is recorded with score 0
\* next to an analyzed one
C10_Witness ==
    /\ consoleLog = "Answer too short or empty"
    /\ Len(analyzeLog) > 0
    /\ \E i \in 1..Len(answers) :
          /\ Len(answers[i].text) > MinAnalyzedLength
          /\ Len(Trim(answers[i].text)) = MinAnalyzedLength
          /\ answers[i].score = 0
    /\ \E i \in 1..Len(answers) : answers[i].score > 0

(***************************************************************************)
(* Session results.                                                        *)
(***************************************************************************)
\* C11: the result finishInterview produces has as totalScore the mean of
\* the scores of the recorded answers that have one, rounded to the nearest
\* integer (0 when there is none); questions without a recorded answer do
\* not enter the mean.
C11_TotalScoreIsRoundedMean ==
    [][\A u \in UrlRoomIds :
          (finishInterview(u) /\ result' # Null)
            => LET scored == {j \in 1..Len(answers) : answers[j].score # NoTime}
                   n == Cardinality(scored)
                   sum == SumScores(answers)
                   t == result'.totalScore
               IN IF n = 0 THEN t = 0
                  ELSE /\ 2 * n * t <= 2 * sum + n
                       /\ 2 * sum + n < 2 * n * (t + 1)]_vars

\* questions [Q1, Q2, Q3] with answers Q1 = 90 and Q3 = 70 gave totalScore 80
C11_Witness ==
    /\ result # Null
    /\ Len(questions) = 3
    /\ Len(answers) = 2
    /\ \E i, j \in 1..2 :
          /\ answers[i].questionId = questions[1].id /\ answers[i].score = 90
          /\ answers[j].questionId = questions[3].id /\ answers[j].score = 70
    /\ result.totalScore = 80

\* C12: the answers of a produced result are one entry per question of the
\* question list, in the order of the list: the recorded answer with the
\* question's id if there is one, else an entry with text "Skipped" and
\* score 0.
C12_OneEntryPerQuestion ==
    [][\A u \in UrlRoomIds :
          (finishInterview(u) /\ result' # Null)
            => /\ Len(result'.answers) = Len(questions)
               /\ \A i \in 1..Len(questions) :
                     LET entry == result'.answers[i]
                         recorded == {j \in 1..Len(answers) :
                                        answers[j].questionId = questions[i].id}
                     IN /\ entry.questionId = questions[i].id
                        /\ IF recorded # {}
                           THEN \A j \in recorded :
                                   /\ entry.text = answers[j].text
                                   /\ entry.score = answers[j].score
                                   /\ entry.feedback = answers[j].feedback
                           ELSE /\ entry.text = SkippedText
                                /\ entry.score = 0]_vars

\* a result whose second entry is synthesized, from answers recorded in
\* another order than the questions'
C12_Witness ==
    /\ result # Null
    /\ Len(questions) = 3
    /\ Len(answers) = 2
    /\ answers[1].questionId = questions[3].id
    /\ answers[2].questionId = questions[1].id
    /\ result.answers[2].text = SkippedText
    /\ result.answers[1].score = answers[2].score
    /\ result.answers[3].score = answers[1].score
    /\ answers[1].score # answers[2].score

\* C14: finishInterview called with no recorded answer leaves the result
\* null, sends neither a room-completion request nor a result submission,
\* and marks the session complete.
C14_NoAnswersNoResult ==
    [][\A u \in UrlRoomIds :
          (finishInterview(u) /\ answers = <<>>)
            => /\ result' = Null
               /\ sessionRequests' = <<>>
               /\ finishPc' = "idle"
               /\ isInterviewComplete']_vars

\* a session with a config, a token and a room id, finished without answers
C14_Witness ==
    /\ isInterviewComplete
    /\ answers = <<>>
    /\ result = Null
    /\ sessionRequests = <<>>
    /\ config # Null /\ token # None /\ localRoomId # None

\* C15: when finishInterview returns, the session is not in progress, is
\* complete and is at question index 0; no step of finishInterview changes
\* the recorded answers or the question list.
C15_FinishFrame ==
    [][/\ answers' = answers
       /\ questions' = questions
       /\ (/\ finishPc' = "idle"
           /\ \/ \E u \in UrlRoomIds : finishInterview(u)
              \/ CompleteByRoomDone
              \/ AutoCompleteDone)
            => /\ ~isInterviewInProgress'
               /\ isInterviewComplete'
               /\ currentQuestionIndex' = 0]_vars

\* finishInterview has returned after both of its room requests, in a
\* session of three questions with answers
C15_Witness ==
    /\ finishPc = "idle"
    /\ Len(sessionRequests) = 3
    /\ isInterviewComplete /\ ~isInterviewInProgress
    /\ currentQuestionIndex = 0
    /\ Len(questions) = 3
    /\ Len(answers) = 2

\* C16: once finishInterview is called the session becomes complete,
\* whatever becomes of the room-completion request and of the result
\* submission, and also when an answer to one of them never comes.
C16_FinishEventuallyComplete ==
    (finishPc # "idle") ~> isInterviewComplete

(***************************************************************************)
(* Starting a session.                                                     *)
(***************************************************************************)
\* C13: the question count startInterview asks for depends on the scheduled
\* flag, the room id and the duration only: the session is scheduled iff the
\* flag is given as true, or is not given while a room id is; a scheduled
\* session of d > 0 seconds asks for max(1, floor(d / 180)) questions (5 for
\* 900), a scheduled session of unknown duration for 5, a practice session
\* for 10; the count is at least 1.
C13_QuestionCount ==
    [][\A o \in StartOptions :
          (StartInterview(o) /\ startPc' # "idle")
            => LET scheduled == \/ o.isHrScheduled = "true"
                                \/ /\ o.isHrScheduled = "undefined"
                                   /\ o.interviewId # None
                   d == o.durationInSeconds
                   count == questionCount'
               IN /\ count >= 1
                  /\ isHrScheduledInterview' = scheduled
                  /\ (scheduled /\ d > 0 /\ d < 180) => count = 1
                  /\ (scheduled /\ d >= 180)
                       => 180 * count <= d /\ d < 180 * (count + 1)
                  /\ (scheduled /\ d = 900) => count = 5
                  /\ (scheduled /\ d = NoTime) => count = 5
                  /\ ~scheduled => count = 10]_vars

\* a start marked scheduled by its flag alone, with a duration under 180 s
C13_Witness ==
    /\ startPc = "getUserMedia"
    /\ isHrScheduledInterview
    /\ sessionInterviewId = None
    /\ questionCount = 1

\* C17: a startInterview that has a config ends with the session in
\* progress and neither loading flag set, whether the device or the
\* questions request fails or not; a failure of the device is recorded in
\* mediaStreamError and the start goes on with no stream acquired.
C17_StartAlwaysEnds ==
    [][/\ \A ok \in BOOLEAN, n \in 0..Len(QuestionIds) :
            StartQuestionsDone(ok, n)
              => /\ isInterviewInProgress'
                 /\ ~isLoadingQuestions'
                 /\ ~isInitializingMedia'
                 /\ startPc' = "idle"
       /\ StartMediaDone(FALSE)
            => /\ mediaStreamError' # None
               /\ mediaStream' = mediaStream
               /\ startPc' = "fetchQuestions"]_vars

\* a start has ended after the device failed: in progress, the error kept,
\* no stream
C17_Witness ==
    /\ startPc = "idle"
    /\ isInterviewInProgress
    /\ ~isLoadingQuestions /\ ~isInitializingMedia
    /\ mediaStreamError # None
    /\ mediaStream = None
    /\ config # Null
    /\ questions = FallbackQuestions(config)

\* C18: when a startInterview has ended the question list is not empty: the
\* questions of the request when it succeeds, else the mock table's for the
\* role and level, else one generic question.
C18_QuestionsNonEmpty ==
    [][\A ok \in BOOLEAN, n \in 0..Len(QuestionIds) :
          StartQuestionsDone(ok, n)
            => /\ questions' # <<>>
               /\ ok => questions' = MakeQuestions(n)
               /\ ~ok => questions' = FallbackQuestions(startConfig)]_vars

(***************************************************************************)
(* Recorded answers.                                                       *)
(***************************************************************************)
\* C19: every answer saveAnswer records has an integer score in 0..100: 0
\* when the trimmed text has at most 10 characters, the evaluator's score
\* times 100 rounded to the nearest integer when the analyze route answers
\* for a score in 0.0 .. 1.0, and a score in 50..70 with the fallback
\* feedback when the route fails; every totalScore is in 0..100.
C19_ScoresInRange ==
    [][/\ \A i \in 1..Len(answers') : answers'[i].score \in 0..100
       /\ result' # Null => result'.totalScore \in 0..100
       /\ \A q \in SessionQuestionIds, t \in AnswerTexts :
            (/\ saveAnswer(q, t)
             /\ Len(Trim(t)) <= 10
             /\ currentQuestionIndex < Len(questions))
              => \E i \in 1..Len(answers') :
                    /\ answers'[i].questionId = q
                    /\ answers'[i].score = 0
       /\ \A e \in BagToSet(analyses), oracle \in OracleScores,
             mock \in MockScores :
            /\ saveAnswerAnalyzed(e, TRUE, oracle, mock)
                 => \E i \in 1..Len(answers') :
                       /\ answers'[i].questionId = e.questionId
                       /\ 10 * answers'[i].score <= oracle + 5
                       /\ oracle + 5 < 10 * (answers'[i].score + 1)
            /\ saveAnswerAnalyzed(e, FALSE, oracle, mock)
                 => \E i \in 1..Len(answers') :
                       /\ answers'[i].questionId = e.questionId
                       /\ answers'[i].score \in 50..70
                       /\ answers'[i].feedback = "fallback"]_vars

\* a result over an answer scored 100 by the route (for 0.995) and an answer
\* scored by the fallback
C19_Witness ==
    /\ result # Null
    /\ Len(answers) = 2
    /\ \E i, j \in 1..2 :
          /\ answers[i].score = 100 /\ answers[i].feedback = "analysis"
          /\ answers[j].score = 70 /\ answers[j].feedback = "fallback"
    /\ result.totalScore = 85

\* C20: the answers hold at most one answer for a question id; recording an
\* answer for a question id that has one replaces it at its position and
\* leaves the number of answers and the other answers as they were.
C20_OneAnswerPerQuestion ==
    [][LET Upserted(q) ==
               IF \E i \in 1..Len(answers) : answers[i].questionId = q
               THEN /\ Len(answers') = Len(answers)
                    /\ \A i \in 1..Len(answers) :
                          IF answers[i].questionId = q
                          THEN answers'[i].questionId = q
                          ELSE answers'[i] = answers[i]
               ELSE /\ Len(answers') = Len(answers) + 1
                    /\ answers'[Len(answers')].questionId = q
                    /\ SubSeq(answers', 1, Len(answers)) = answers
       IN /\ \A i, j \in 1..Len(answers') :
               answers'[i].questionId = answers'[j].questionId => i = j
          /\ \A q \in SessionQuestionIds, t \in AnswerTexts :
               (saveAnswer(q, t) /\ consoleLog' = "Answer too short or empty")
                 => Upserted(q)
          /\ \A e \in BagToSet(analyses), ok \in BOOLEAN,
                oracle \in OracleScores, mock \in MockScores :
               saveAnswerAnalyzed(e, ok, oracle, mock)
                 => Upserted(e.questionId)]_vars

\* two analyses have been recorded, and of the two answers held only one
\* is an analysed one: a later recording replaced the other
C20_Witness ==
    /\ Len(analyzeLog) = 2
    /\ analyses = EmptyBag
    /\ Len(answers) = 2
    /\ answers[1].feedback = "fallback"
    /\ answers[2].feedback = "Answer was too short for analysis."
    /\ isInterviewInProgress

\* the requests to the analyze route, by their place in analyzeLog, that
\* are about the question with id q
AnalyzeCalls(q) ==
    {k \in 1..Len(analyzeLog) :
        \E i \in 1..Len(questions) : /\ questions[i].id = q
                                     /\ questions[i].text = analyzeLog[k].question}

\* C21: when saveAnswer calls for different question ids are awaiting the
\* analyze route at once, the answers hold an answer for each of these ids
\* once the calls have resumed, in whatever order the route answers.
C21_NoLostUpdate ==
    \A q \in SessionQuestionIds :
        (/\ AnalyzeCalls(q) # {}
         /\ \A e \in BagToSet(analyses) : e.questionId # q)
          => \E i \in 1..Len(answers) : answers[i].questionId = q

\* two calls for different ids: the one sent second was recorded first, so
\* both were awaiting at once, and both answers are held
C21_Witness ==
    /\ Len(analyzeLog) = 2
    /\ analyses = EmptyBag
    /\ Len(answers) = 2
    /\ 1 \in AnalyzeCalls(answers[2].questionId)
    /\ 2 \in AnalyzeCalls(answers[1].questionId)
    /\ answers[1].questionId # answers[2].questionId

\* C22: when two saveAnswer calls for one question id are awaiting the
\* analyze route at once, the answer held for the id once both have resumed
\* is that of the call made later, in whatever order the route answers.
C22_LastIssuedWins ==
    analyses = EmptyBag
      => \A q \in SessionQuestionIds :
            AnalyzeCalls(q) # {}
              => LET last == CHOOSE k \in AnalyzeCalls(q) :
                                \A j \in AnalyzeCalls(q) : j <= k
                 IN \E i \in 1..Len(answers) :
                       /\ answers[i].questionId = q
                       /\ answers[i].text = analyzeLog[last].answer

(***************************************************************************)
(* The session's position and phases.                                      *)
(***************************************************************************)
\* C23: after any start, next, previous, saveAnswer and finish the current
\* question index is within 0 .. len - 1 of the question list (0 when the
\* list is empty); nextQuestion at the last question and previousQuestion at
\* the first do nothing, otherwise they move the index by one.
C23_IndexInRange ==
    [][/\ IF questions' = <<>> THEN currentQuestionIndex' = 0
          ELSE currentQuestionIndex' \in 0..(Len(questions') - 1)
       /\ nextQuestion => currentQuestionIndex' = currentQuestionIndex + 1
       /\ previousQuestion => currentQuestionIndex' = currentQuestionIndex - 1
       /\ currentQuestionIndex >= Len(questions) - 1 => ~ENABLED nextQuestion
       /\ currentQuestionIndex = 0 => ~ENABLED previousQuestion]_vars

\* at the last of three questions, in a session that has answers
C23_Witness ==
    /\ Len(questions) = 3
    /\ currentQuestionIndex = 2
    /\ isInterviewInProgress
    /\ answers # <<>>

\* the phase the flags of the provider show
Phase ==
    IF isLoadingQuestions \/ isInitializingMedia THEN "loading"
    ELSE IF isInterviewInProgress THEN "inProgress"
    ELSE IF isInterviewComplete THEN "complete"
    ELSE "idle"

\* C30: a session goes through idle, loading, inProgress, complete in this
\* order: it becomes complete only from inProgress and by finishInterview,
\* becomes inProgress only where a startInterview ends, and leaves complete
\* only by a new startInterview.
C30_PhaseOrder ==
    [][/\ (Phase' = "complete" /\ Phase # "complete")
            => /\ Phase = "inProgress"
               /\ finishInterview(None) \/ CompleteByRoomDone \/ AutoCompleteDone
       /\ (Phase' = "inProgress" /\ Phase # "inProgress")
            => /\ startPc' = "idle"
               /\ \/ \E o \in LifecycleStartOptions : StartInterview(o)
                  \/ \E ok \in BOOLEAN, n \in 0..Len(QuestionIds) :
                        StartQuestionsDone(ok, n)
       /\ (Phase = "complete" /\ Phase' # "complete")
            => \E o \in LifecycleStartOptions : StartInterview(o)]_vars

\* C26: between one startInterview and the next, the finishInterview calls
\* send at most one POST /api/interview-results, however many they are.
C26_OneSubmissionPerSession ==
    submissionsSinceStart <= 1

(***************************************************************************)
(* POST /api/interview-results: room resolution and result creation.       *)
(***************************************************************************)
\* C24: an authenticated result submission whose interviewId matches no room
\* link is answered 404 and changes neither the results nor any room; one
\* whose interviewId resolves to a room sets that room completed when it reads
\* it scheduled and writes no status when it reads it completed or cancelled,
\* and the result it stores is linked to that room.  No stored result is
\* linked to a room that is still scheduled.
C24_SubmitResolution ==
    /\ [][/\ \A q \in SubmitRequests :
               (/\ AuthenticateToken(q[1]) = 0
                /\ q[2] # None
                /\ SubmitResult(q[1], q[2], q[3]))
                 => LET named == {r \in DOMAIN rooms :
                                     rooms[r].roomLink = <<"/interview-room/", q[2]>>}
                    IN  IF named = {}
                        THEN /\ lastResp' = [op |-> "submitResult", code |-> 404]
                             /\ rooms' = rooms
                             /\ results' = results
                             /\ inflight' = inflight
                        ELSE /\ rooms' = rooms
                             /\ results' = results
                             /\ \E e \in BagToSet(inflight'), r \in named :
                                  /\ inflight' = Suspend(e)
                                  /\ e.op = "submitResult"
                                  /\ e.room = r
                                  /\ e.pc = (IF rooms[r].status = "scheduled"
                                             THEN "saveStatus" ELSE "saveResult")
                                  /\ e.status = (IF rooms[r].status = "scheduled"
                                                 THEN "completed"
                                                 ELSE rooms[r].status)
          /\ \A e \in BagToSet(inflight) :
               (e.op = "submitResult" /\ e.room # None)
                 => /\ SaveRoomStatus(e)
                         => /\ rooms' = [rooms EXCEPT ![e.room].status = "completed"]
                            /\ results' = results
                    /\ (SaveResult(e) /\ e.valid)
                         => /\ Len(results') = Len(results) + 1
                            /\ results'[Len(results')].interviewId = e.room
                            /\ rooms' = rooms
                    /\ SaveRoomNotes(e)
                         => /\ \A r \in DOMAIN rooms :
                                  rooms'[r].status = rooms[r].status
                            /\ results' = results
                            /\ lastResp' = [op |-> "submitResult", code |-> 201]
         ]_vars
    /\ [](\A i \in 1..Len(results) :
            results[i].interviewId # None
              => /\ results[i].interviewId \in DOMAIN rooms
                 /\ rooms[results[i].interviewId].status # "scheduled")

\* a submission naming the link of room id1 was answered 201: the room is
\* completed and the stored result is linked to it
C24_Witness ==
    /\ lastResp = [op |-> "submitResult", code |-> 201]
    /\ inflight = EmptyBag
    /\ "id1" \in DOMAIN rooms
    /\ rooms["id1"].status = "completed"
    /\ Len(results) = 1
    /\ results[1].interviewId = "id1"
    /\ rooms["id1"].notes # <<>>

\* C25: the stored results are append-only: the collection changes only by
\* gaining one record at its end, every result.save() of a valid submission
\* adds exactly one record and leaves the earlier ones as they were, also
\* when the room already has a result, and no other step touches the results.
C25_AppendOnly ==
    [][/\ results' # results
            => /\ Len(results') = Len(results) + 1
               /\ SubSeq(results', 1, Len(results)) = results
       /\ \A e \in BagToSet(inflight) :
            /\ (SaveResult(e) /\ e.valid)
                 => /\ Len(results') = Len(results) + 1
                    /\ SubSeq(results', 1, Len(results)) = results
                    /\ results'[Len(results')] =
                         [candidateId |-> e.caller, interviewId |-> e.room]
            /\ (SaveResult(e) /\ ~e.valid) => results' = results
            /\ (SaveRoomStatus(e) \/ SaveRoomNotes(e)) => results' = results
      ]_vars

\* room id1 has two stored results, both submissions answered
C25_Witness ==
    /\ Len(results) = 2
    /\ results[1].interviewId = "id1"
    /\ results[2].interviewId = "id1"
    /\ inflight = EmptyBag
    /\ lastResp = [op |-> "submitResult", code |-> 201]

(***************************************************************************)
(* Lookup and error answers of the transition routes.                      *)
(***************************************************************************)
\* C27: PUT /auto-complete/:id and PUT /room/:roomId/complete resolve every
\* key to the same room: the room whose _id equals the key if there is one,
\* otherwise the room whose link token equals the key; when neither exists
\* both answer 404 and change nothing, and otherwise both act on that room.
C27_SameResolution ==
    /\ [](\A k \in Keys :
            LET byToken == {r \in DOMAIN rooms :
                              rooms[r].roomLink = <<"/interview-room/", k>>}
                expected == IF k \in DOMAIN rooms THEN {k} ELSE byToken
            IN  /\ Cardinality(expected) <= 1
                /\ IF expected = {}
                   THEN /\ ResolveAutoComplete(k) = None
                        /\ ResolveCompleteByRoom(k) = None
                   ELSE /\ ResolveAutoComplete(k) \in expected
                        /\ ResolveCompleteByRoom(k) \in expected)
    /\ [][\A q \in OpenRequests :
            (AutoComplete(q[1], q[2]) \/ CompleteByRoom(q[1], q[2]))
              => LET k == q[2]
                     byToken == {r \in DOMAIN rooms :
                                   rooms[r].roomLink = <<"/interview-room/", k>>}
                     expected == IF k \in DOMAIN rooms THEN {k} ELSE byToken
                 IN  IF expected = {}
                     THEN /\ lastResp'.code = 404
                          /\ rooms' = rooms
                          /\ inflight' = inflight
                     ELSE /\ rooms' = rooms
                          /\ \/ /\ lastResp'.code = 400
                                /\ inflight' = inflight
                             \/ \E e \in BagToSet(inflight') :
                                  /\ inflight' = Suspend(e)
                                  /\ e.room \in expected
                                  /\ lastResp' = lastResp
         ]_vars

\* the room id1 exists, a complete-by-room request has completed it and a
\* later request to the same route was refused
C27_Witness ==
    /\ "id1" \in DOMAIN rooms
    /\ rooms["id1"].status = "completed"
    /\ lastResp.op = "completeByRoom"
    /\ lastResp.code \in {400, 404}
    /\ inflight = EmptyBag

\* C28: a cancel or complete request with a well-formed id from an
\* authenticated caller is answered 403 when the room exists and the caller is
\* neither its organizer nor its candidate, 404 when the room does not exist,
\* and 400 when a party fails only the status guard; in each case nothing is
\* written.
C28_ErrorAnswers ==
    [][\A q \in PartyRequests :
         (AuthenticateToken(q[1]) = 0
            /\ IsValidObjectId(q[2])
            /\ (CancelInterview(q[1], q[2]) \/ CompleteInterview(q[1], q[2])))
           => IF q[2] \notin DOMAIN rooms
              THEN /\ lastResp'.code = 404
                   /\ rooms' = rooms /\ inflight' = inflight
              ELSE IF q[1] \notin {rooms[q[2]].hr, rooms[q[2]].candidate}
              THEN /\ lastResp'.code = 403
                   /\ rooms' = rooms /\ inflight' = inflight
              ELSE IF rooms[q[2]].status # "scheduled"
                      /\ (q[1] = rooms[q[2]].hr \/ CompleteInterview(q[1], q[2]))
              THEN /\ lastResp'.code = 400
                   /\ rooms' = rooms /\ inflight' = inflight
              ELSE TRUE
      ]_vars

(***************************************************************************)
(* InterviewRoomPage: the countdown interval and the page's teardown.      *)
(***************************************************************************)
\* C29: the countdown interval is live, so that its callback can fire, only
\* while the page is mounted and the room has not expired: it is cleared on
\* unmount and on expiry, also when the page is unmounted while the room
\* fetch that starts the interval is still pending.
C29_NoTickAfterTeardown ==
    timerLive => (mounted /\ ~roomExpired)

(***************************************************************************)
(* Expiry requests and failed result submissions.                          *)
(***************************************************************************)
\* C35: an unauthenticated auto-complete request (PUT /:id/auto-complete or
\* PUT /auto-complete/:id) is left waiting to write completed only when the
\* server's time is after the room's scheduledFor + duration, and the write
\* of such a request changes a scheduled room only after that time; a request
\* made before the end time writes nothing.
C35_AutoCompleteOnlyAfterEnd ==
    [][/\ \A q \in OpenRequests :
            (AutoComplete(q[1], q[2]) \/ TimedAutoComplete(q[1], q[2]))
              => \/ inflight' = inflight /\ rooms' = rooms
                 \/ \E e \in BagToSet(inflight') :
                      /\ inflight' = Suspend(e)
                      /\ serverNow > RoomEndTime(rooms[e.room])
       /\ \A e \in BagToSet(inflight) :
            (/\ e.op \in {"autoComplete", "timedAutoComplete"}
             /\ SaveRoomStatus(e)
             /\ rooms[e.room].status = "scheduled")
              => serverNow > RoomEndTime(rooms[e.room])
      ]_vars

\* C37: when a result submission that resolved a room is answered 500 and
\* stores no result, the status of that room is the one the room had when the
\* submission read it.
C37_FailedSubmitLeavesRoom ==
    [][\A e \in BagToSet(inflight) :
         (/\ e.op = "submitResult"
          /\ e.room # None
          /\ SaveResult(e)
          /\ lastResp' = [op |-> "submitResult", code |-> 500]
          /\ results' = results)
           => rooms'[e.room].status = e.before
      ]_vars

(***************************************************************************)
(* InterviewRoomPage: a startable page has a running countdown.            *)
(***************************************************************************)
\* C38: whenever the mounted room page is startable (canStart and not
\* roomExpired) its countdown interval is live, so that the ticks lead it to
\* the lock-out; this includes a page loaded when less than one whole second
\* remains before the end time.
C38_StartableHasTimer ==
    (mounted /\ canStart /\ ~roomExpired) => timerLive

(***************************************************************************)
(* InterviewContext: finishInterview while a startInterview is pending.    *)
(***************************************************************************)
\* C34: in every reachable state of the session, isInterviewInProgress and
\* isInterviewComplete are not both true, also when finishInterview runs
\* while a startInterview is awaiting getUserMedia or the questions.
C34_NotInProgressAndComplete ==
    ~(isInterviewInProgress /\ isInterviewComplete)

\* C36: a session started without a room identifier sends no room-completion
\* request when it finishes and posts its result without an interviewId,
\* also when the browser still holds the room id of a scheduled interview
\* that was joined earlier.
C36_PracticeTouchesNoRoom ==
    sessionInterviewId = None
      => \A i \in 1..Len(sessionRequests) :
            /\ sessionRequests[i].route = "POST /api/interview-results"
            /\ sessionRequests[i].interviewId = None

\* C39: whenever saveAnswer(questionId, text) sends a request to the analyze
\* route for the id of one of the session's questions, the question text it
\* sends is the text of that question, also when currentQuestionIndex points
\* at another question.
C39_PromptOfQuestionId ==
    [][\A q \in SessionQuestionIds, t \in AnswerTexts :
         \A i \in 1..Len(questions) :
            (/\ questions[i].id = q
             /\ saveAnswer(q, t)
             /\ Len(analyzeLog') = Len(analyzeLog) + 1)
              => analyzeLog'[Len(analyzeLog')].question = questions[i].text
      ]_vars

(***************************************************************************)
(* InterviewContext: capture handles, restarts and overlapping starts.     *)
(***************************************************************************)
\* C31: every capture handle of the session is released exactly once: no
\* handle has its tracks stopped by more than one release run, and once the
\* session is finished or the provider unmounted the handle the session holds
\* has been released.
C31_ReleasedExactlyOnce ==
    \A h \in Handles :
       /\ trackStops[h] <= 1
       /\ (/\ mediaStream = h
           /\ \/ ~providerMounted
              \/ isInterviewComplete /\ startPc = "idle")
            => trackStops[h] = 1

\* C40: whenever the session is complete and no startInterview is pending,
\* mediaStream is null, so that the session holds no handle whose tracks
\* run; also when finishInterview ran while a startInterview was awaiting
\* getUserMedia.
C40_CompleteHoldsNoHandle ==
    (providerMounted /\ isInterviewComplete /\ startPc = "idle")
      => mediaStream = None

\* C32: startInterview clears result and answers; result then stays null
\* until a finishInterview sets it, and a saveAnswer call that was awaiting
\* its analysis when the start was called adds nothing to the answers of the
\* new session when it resolves.
C32_StartResets ==
    [][/\ \A o \in RestartOptions :
            (TrackedStart(o) \/ StartInterviewOverlapping(o))
              => (result' = Null /\ answers' = <<>>)
       /\ (result = Null /\ result' # Null) => TrackedFinish
       /\ \A e \in BagToSet(staleAnalyses), ok \in BOOLEAN :
            TrackedAnswerAnalyzed(e, ok) => answers' = answers
      ]_vars

\* C33: when no startInterview is pending any more, the questions of the
\* session are the ones that were fetched for the call made last, with the
\* role and level that config holds.
C33_LatestStartWins ==
    (startPc = "idle" /\ laterStart = Null /\ startLog.questionsOf # None)
      => /\ startLog.questionsOf = startLog.latest
         /\ startLog.questionsConfig = config

====
